---- MODULE Spec2Model ----
(***************************************************************************)
(* A model of the jsonQuerry library: the zero-copy JSON parser with its   *)
(* lazily decoded value tree and its projection (src/parser.go 1-365,      *)
(* src/value.go), and the query compiler and filter evaluation engine      *)
(* (src/parser.go 367-949).  Each part has its own specification:          *)
(* SpecFilter, SpecQuery, SpecParse, SpecKeep, SpecSearch, SpecScan,       *)
(* SpecUnescape and SpecReuse.                                             *)
(*                                                                         *)
(* Text is a sequence of one-character strings.  A character of more than  *)
(* one byte is written as a name ("U+00E9") and has its byte width.        *)
(***************************************************************************)
EXTENDS Integers, Sequences, FiniteSets, TLC

VARIABLES
    flt,        \* the Filter under evaluation: [key, op, val]
    compareTo,  \* the actual value handed to Filter.check
    fres,       \* "pending", or the result of Filter.check: "true" / "false"
    cmd,        \* the query text handed to ParseQuery
    qpc,        \* "pending", "returned" or "panicked"
    qlevel,     \* the Level ParseQuery returned
    qerr,       \* the error ParseQuery returned: "nil", or "none" before it returns
    doc,        \* the text handed to Parser.Parse
    ppc,        \* "pending" or "returned"
    parser_b,   \* Parser.b: the working copy of the text
    parser_c,   \* Parser.c: the Values of the cache, in the order they were got
    pret,       \* the *Value Parse returned
    perr,       \* the error Parse returned: "nil" or its message
    calls,      \* the Type() calls made so far: the node and the tag returned
    request,    \* the KeepRequest handed to Keep
    kpc,        \* "pending", "returned" or "panicked"
    kres,       \* the result Keep returned
    kerr,       \* the error Keep returned: "nil" or its message
    keys,       \* the key path handed to Search
    spc,        \* "pending", "returned" or "panicked"
    sres,       \* the values Search returned
    serr,       \* the error Search returned: "nil" or its message
    input,      \* the text handed to parseRawString or unescapeStringBestEffort
    scan,       \* what parseRawString returned, its err "pending" before
    un,         \* unescapeStringBestEffort at work: [pc, buf, b, r, moved]
    mem,        \* the memory of the Parser outside Parser.b and the Values in
                \* use: [spare_b, spare_c, orphans]
    hist,       \* what the Parser has done: [nparse, writes, resets]
    held        \* a tree a caller holds: [v, at, seen]
\* fres, qpc, ppc, kpc, spc, scan.err and un.pc are "idle" in the
\* specifications of the other parts.

fvars == <<flt, compareTo, fres>>
qvars == <<cmd, qpc, qlevel, qerr>>
pvars == <<doc, ppc, parser_b, parser_c, pret, perr, calls>>
kvars == <<request, kpc, kres, kerr>>
svars == <<keys, spc, sres, serr>>
tvars == <<input, scan, un>>
rvars == <<mem, hist, held>>
vars == <<fvars, qvars, pvars, kvars, svars, tvars, rvars>>

(***************************************************************************)
(* Text                                                                    *)
(***************************************************************************)

\* The printable ASCII characters, in code order from 32 to 126 (the
\* backquote, 96, cannot be written in a string here: its place holds a
\* second "?", which Code never selects).
AsciiPrintable ==
    << " ", "!", "\"", "#", "$", "%", "&", "'", "(", ")", "*", "+", ",", "-",
       ".", "/", "0", "1", "2", "3", "4", "5", "6", "7", "8", "9", ":", ";",
       "<", "=", ">", "?", "@", "A", "B", "C", "D", "E", "F", "G", "H", "I",
       "J", "K", "L", "M", "N", "O", "P", "Q", "R", "S", "T", "U", "V", "W",
       "X", "Y", "Z", "[", "\\", "]", "^", "_", "?", "a", "b", "c", "d", "e",
       "f", "g", "h", "i", "j", "k", "l", "m", "n", "o", "p", "q", "r", "s",
       "t", "u", "v", "w", "x", "y", "z", "{", "|", "}", "~" >>

HexDigits ==
    << "0", "1", "2", "3", "4", "5", "6", "7", "8", "9",
       "A", "B", "C", "D", "E", "F" >>

\* The name of a byte no string here can hold: "0x" and its two hex digits.
ByteName(n) == "0x" \o HexDigits[(n \div 16) + 1] \o HexDigits[(n % 16) + 1]

\* The byte value of a one-byte character.
Code(ch) ==
    CASE ch = "\t" -> 9
      [] ch = "\n" -> 10
      [] ch = "\f" -> 12
      [] ch = "\r" -> 13
      [] \E i \in 1..Len(AsciiPrintable) : AsciiPrintable[i] = ch ->
            LET at == {i \in 1..Len(AsciiPrintable) : AsciiPrintable[i] = ch}
            IN  31 + (CHOOSE i \in at : \A j \in at : i <= j)
      [] OTHER -> CHOOSE n \in 0..255 : ByteName(n) = ch

\* The one-byte character of a byte value.
ByteOf(n) ==
    CASE n = 9  -> "\t"
      [] n = 10 -> "\n"
      [] n = 12 -> "\f"
      [] n = 13 -> "\r"
      [] n >= 32 /\ n <= 126 /\ n # 96 -> AsciiPrintable[n - 31]
      [] OTHER -> ByteName(n)

Digits == {"0", "1", "2", "3", "4", "5", "6", "7", "8", "9"}
LowerLetters ==
    {"a", "b", "c", "d", "e", "f", "g", "h", "i", "j", "k", "l", "m", "n",
     "o", "p", "q", "r", "s", "t", "u", "v", "w", "x", "y", "z"}
UpperLetters ==
    {"A", "B", "C", "D", "E", "F", "G", "H", "I", "J", "K", "L", "M", "N",
     "O", "P", "Q", "R", "S", "T", "U", "V", "W", "X", "Y", "Z"}

\* s[from:] and s[from:to] with Go's zero-based, half-open indices.
Drop(s, from) == SubSeq(s, from + 1, Len(s))
Slice(s, from, to) == SubSeq(s, from + 1, to)

HasPrefix(s, p) == Len(p) <= Len(s) /\ SubSeq(s, 1, Len(p)) = p

\* strings.Index: the zero-based index of the first occurrence, or -1.
Index(s, sub) ==
    LET hits == {i \in 0..(Len(s) - Len(sub)) : Slice(s, i, i + Len(sub)) = sub}
    IN  IF hits = {} THEN -1 ELSE CHOOSE i \in hits : \A j \in hits : i <= j

Contains(s, sub) == Index(s, sub) >= 0

\* strings.Replace(s, old, "", -1) for a one-character old.
RemoveAll(s, ch) == SelectSeq(s, LAMBDA x : x # ch)

\* Go's < on strings: byte-wise lexical order.
RECURSIVE StrLess(_, _)
StrLess(a, b) ==
    IF b = <<>> THEN FALSE
    ELSE IF a = <<>> THEN TRUE
    ELSE IF Code(Head(a)) # Code(Head(b)) THEN Code(Head(a)) < Code(Head(b))
    ELSE StrLess(Tail(a), Tail(b))

(***************************************************************************)
(* Numbers                                                                 *)
(*                                                                         *)
(* A number is sign and magnitude, the magnitude hi * 2^27 + lo + fr/1000  *)
(* with lo < 2^27 and fr < 1000: wide enough to hold the int64 values      *)
(* around 2^53, where float64 stops holding every integer (hi < 2^30 is    *)
(* what the model covers).  An int64 has fr = 0.  A float64 is the exact   *)
(* value it holds: the model draws only values a float64 holds, or short   *)
(* decimals, which distinct float64 values represent.                      *)
(***************************************************************************)

LimbBase == 2^27

NumOf(n) ==
    [neg |-> n < 0, hi |-> 0, lo |-> IF n < 0 THEN -n ELSE n, fr |-> 0]

NumZero == NumOf(0)

NumIsZero(x) == x.hi = 0 /\ x.lo = 0 /\ x.fr = 0

MagLess(a, b) ==
    \/ a.hi < b.hi
    \/ a.hi = b.hi /\ a.lo < b.lo
    \/ a.hi = b.hi /\ a.lo = b.lo /\ a.fr < b.fr

MagEq(a, b) == a.hi = b.hi /\ a.lo = b.lo /\ a.fr = b.fr

\* Go's == and < on two int64 or two float64 values (-0 equals 0).
NumEq(a, b) ==
    /\ MagEq(a, b)
    /\ (a.neg = b.neg \/ NumIsZero(a))

NumLess(a, b) ==
    LET an == a.neg /\ ~NumIsZero(a)
        bn == b.neg /\ ~NumIsZero(b)
    IN  IF an # bn THEN an
        ELSE IF an THEN MagLess(b, a)
        ELSE MagLess(a, b)

\* float64(v) of an int64 v: the nearest value with a 53-bit significand,
\* ties to the even significand.  Below 2^53 the conversion is exact.
ToFloat64(v) ==
    LET e  == CHOOSE k \in 0..4 :
                  /\ v.hi < 2^(26 + k)
                  /\ (k = 0 \/ v.hi >= 2^(25 + k))
        g  == 2^e
        q  == v.lo \div g
        r  == v.lo % g
        up == (2 * r > g) \/ (2 * r = g /\ q % 2 = 1)
        lo == IF up THEN (q + 1) * g ELSE q * g
    IN  IF lo = LimbBase
        THEN [v EXCEPT !.hi = v.hi + 1, !.lo = 0]
        ELSE [v EXCEPT !.lo = lo]

(***************************************************************************)
(* Filter evaluation (src/parser.go 376-811)                               *)
(*                                                                         *)
(* An interface{} value is a record tagged with its dynamic type.          *)
(***************************************************************************)

BoolV(x)  == [ty |-> "bool", b |-> x]
IntV(x)   == [ty |-> "int64", i |-> x]
FloatV(x) == [ty |-> "float64", f |-> x]
StrV(x)   == [ty |-> "string", s |-> x]
ListV(x)  == [ty |-> "list", l |-> x]
NilV      == [ty |-> "nil"]

eq          == "==="
partialEq   == "=="
diff        == "!=="
partialDiff == "!="
sup         == ">"
supEq       == ">="
inf         == "<"
infEq       == "<="
contain     == ":"
notContain  == "!:"
like        == "::"
notLike     == "!::"

\* strings.ToLower on ASCII text.
ToLower(s) ==
    [i \in 1..Len(s) |->
        IF s[i] \in UpperLetters
        THEN AsciiPrintable[Code(s[i]) + 32 - 31]
        ELSE s[i]]

\* strings.TrimLeft(s, `"`) and strings.TrimRight(s, `"`).
RECURSIVE TrimLeft(_, _)
TrimLeft(s, ch) ==
    IF s # <<>> /\ Head(s) = ch THEN TrimLeft(Tail(s), ch) ELSE s

RECURSIVE TrimRight(_, _)
TrimRight(s, ch) ==
    IF s # <<>> /\ s[Len(s)] = ch
    THEN TrimRight(SubSeq(s, 1, Len(s) - 1), ch)
    ELSE s

RECURSIVE checkEq(_, _)
checkEq(base, compared) ==
    CASE base.ty = "bool" ->
            compared.ty = "bool" /\ compared.b = base.b
      [] base.ty = "int64" ->
            \/ compared.ty = "int64" /\ NumEq(compared.i, base.i)
            \/ compared.ty = "float64" /\ NumEq(compared.f, ToFloat64(base.i))
      [] base.ty = "float64" ->
            \/ compared.ty = "float64" /\ NumEq(compared.f, base.f)
            \/ compared.ty = "int64" /\ NumEq(ToFloat64(compared.i), base.f)
      [] base.ty = "string" ->
            compared.ty = "string" /\ compared.s = base.s
      [] base.ty = "list" ->
            \A k \in 1..Len(base.l) : checkEq(base.l[k], compared)
      [] OTHER -> FALSE

\* checkPartialEq with the literal's quotes left in place.
checkPartialEqKeepsQuotes(base, compared) ==
    CASE base.ty = "string" ->
            compared.ty = "string" /\ Contains(compared.s, base.s)
      [] base.ty = "list" ->
            \E k \in 1..Len(base.l) : checkEq(base.l[k], compared)
      [] OTHER -> checkEq(base, compared)

checkPartialEq(base, compared) ==
    CASE base.ty = "bool" ->
            compared.ty = "bool" /\ compared.b = base.b
      [] base.ty = "int64" ->
            \/ compared.ty = "int64" /\ NumEq(compared.i, base.i)
            \/ compared.ty = "float64" /\ NumEq(compared.f, ToFloat64(base.i))
      [] base.ty = "float64" ->
            \/ compared.ty = "float64" /\ NumEq(compared.f, base.f)
            \/ compared.ty = "int64" /\ NumEq(ToFloat64(compared.i), base.f)
      [] base.ty = "string" ->
            /\ compared.ty = "string"
            /\ Contains(compared.s, RemoveAll(base.s, "\""))
      [] base.ty = "list" ->
            \E k \in 1..Len(base.l) : checkEq(base.l[k], compared)
      [] OTHER -> FALSE

RECURSIVE checkDiff(_, _)
checkDiff(base, compared) ==
    CASE base.ty = "bool" ->
            compared.ty = "bool" /\ compared.b # base.b
      [] base.ty = "int64" ->
            \/ compared.ty = "int64" /\ ~NumEq(compared.i, base.i)
            \/ compared.ty = "float64" /\ ~NumEq(compared.f, ToFloat64(base.i))
      [] base.ty = "float64" ->
            \/ compared.ty = "float64" /\ ~NumEq(compared.f, base.f)
            \/ compared.ty = "int64" /\ ~NumEq(ToFloat64(compared.i), base.f)
      [] base.ty = "string" ->
            compared.ty = "string" /\ compared.s # base.s
      [] base.ty = "list" ->
            \A k \in 1..Len(base.l) : ~checkDiff(base.l[k], compared)
      [] OTHER -> FALSE

checkPartialDiff(base, compared) ==
    CASE base.ty = "bool" ->
            compared.ty = "bool" /\ compared.b # base.b
      [] base.ty = "int64" ->
            \/ compared.ty = "int64" /\ ~NumEq(compared.i, base.i)
            \/ compared.ty = "float64" /\ ~NumEq(compared.f, ToFloat64(base.i))
      [] base.ty = "float64" ->
            \/ compared.ty = "float64" /\ ~NumEq(compared.f, base.f)
            \/ compared.ty = "int64" /\ ~NumEq(ToFloat64(compared.i), base.f)
      [] base.ty = "string" ->
            compared.ty = "string" /\ compared.s # base.s
      [] base.ty = "list" ->
            \E k \in 1..Len(base.l) : ~checkDiff(base.l[k], compared)
      [] OTHER -> FALSE

RECURSIVE checkSup(_, _)
checkSup(base, compared) ==
    CASE base.ty = "int64" ->
            \/ compared.ty = "int64" /\ NumLess(base.i, compared.i)
            \/ compared.ty = "float64" /\ NumLess(ToFloat64(base.i), compared.f)
      [] base.ty = "float64" ->
            \/ compared.ty = "float64" /\ NumLess(base.f, compared.f)
            \/ compared.ty = "int64" /\ NumLess(base.f, ToFloat64(compared.i))
      [] base.ty = "string" ->
            compared.ty = "string" /\ StrLess(base.s, compared.s)
      [] base.ty = "list" ->
            \A k \in 1..Len(base.l) : checkSup(base.l[k], compared)
      [] OTHER -> FALSE

RECURSIVE checkSupEq(_, _)

\* checkSupEq with > in place of >= on numbers.
checkSupEqStrict(base, compared) ==
    CASE base.ty = "int64" ->
            \/ compared.ty = "int64" /\ NumLess(base.i, compared.i)
            \/ compared.ty = "float64" /\ NumLess(ToFloat64(base.i), compared.f)
      [] base.ty = "float64" ->
            \/ compared.ty = "float64" /\ NumLess(base.f, compared.f)
            \/ compared.ty = "int64" /\ NumLess(base.f, ToFloat64(compared.i))
      [] base.ty = "string" ->
            compared.ty = "string" /\ StrLess(base.s, compared.s)
      [] base.ty = "list" ->
            \E k \in 1..Len(base.l) : checkSupEq(base.l[k], compared)
      [] OTHER -> FALSE

checkSupEq(base, compared) ==
    CASE base.ty = "int64" ->
            \/ compared.ty = "int64" /\ ~NumLess(compared.i, base.i)
            \/ compared.ty = "float64" /\ ~NumLess(compared.f, ToFloat64(base.i))
      [] base.ty = "float64" ->
            \/ compared.ty = "float64" /\ ~NumLess(compared.f, base.f)
            \/ compared.ty = "int64" /\ ~NumLess(ToFloat64(compared.i), base.f)
      [] base.ty = "string" ->
            compared.ty = "string" /\ StrLess(base.s, compared.s)
      [] base.ty = "list" ->
            \E k \in 1..Len(base.l) : checkSupEq(base.l[k], compared)
      [] OTHER -> FALSE

checkInf(base, compared) ==
    CASE base.ty = "int64" ->
            \/ compared.ty = "int64" /\ NumLess(compared.i, base.i)
            \/ compared.ty = "float64" /\ NumLess(compared.f, ToFloat64(base.i))
      [] base.ty = "float64" ->
            \/ compared.ty = "float64" /\ NumLess(compared.f, base.f)
            \/ compared.ty = "int64" /\ NumLess(ToFloat64(compared.i), base.f)
      [] base.ty = "string" ->
            compared.ty = "string" /\ StrLess(compared.s, base.s)
      [] base.ty = "list" ->
            \A k \in 1..Len(base.l) : checkSup(base.l[k], compared)
      [] OTHER -> FALSE

RECURSIVE checkInfEq(_, _)
checkInfEq(base, compared) ==
    CASE base.ty = "int64" ->
            \/ compared.ty = "int64" /\ ~NumLess(base.i, compared.i)
            \/ compared.ty = "float64" /\ ~NumLess(ToFloat64(base.i), compared.f)
      [] base.ty = "float64" ->
            \/ compared.ty = "float64" /\ ~NumLess(base.f, compared.f)
            \/ compared.ty = "int64" /\ ~NumLess(base.f, ToFloat64(compared.i))
      [] base.ty = "string" ->
            compared.ty = "string" /\ StrLess(base.s, compared.s)
      [] base.ty = "list" ->
            \E k \in 1..Len(base.l) : checkInfEq(base.l[k], compared)
      [] OTHER -> FALSE

\* The literal, lower-cased and with its leading and trailing quotes cut,
\* as checkContain, checkNotContain, checkLike and checkNotLike prepare it.
LoweredTrimmed(b) == TrimRight(TrimLeft(ToLower(b), "\""), "\"")

checkContain(base, compared) ==
    /\ base.ty = "string"
    /\ compared.ty = "string"
    /\ Contains(LoweredTrimmed(base.s), ToLower(compared.s))

checkNotContain(base, compared) ==
    /\ base.ty = "string"
    /\ compared.ty = "string"
    /\ ~Contains(LoweredTrimmed(base.s), ToLower(compared.s))

\* regexp.MatchString(pattern, s) for a pattern of ordinary characters only
\* (no regular-expression operator): s contains the pattern.
MatchString(pattern, s) == Contains(s, pattern)

checkLike(base, compared) ==
    /\ base.ty = "string"
    /\ compared.ty = "string"
    /\ MatchString(LoweredTrimmed(base.s), ToLower(compared.s))

checkNotLike(base, compared) ==
    /\ base.ty = "string"
    /\ compared.ty = "string"
    /\ ~MatchString(LoweredTrimmed(base.s), ToLower(compared.s))

\* Operation.check
OperationCheck(o, base, compared) ==
    CASE o = eq          -> checkEq(base, compared)
      [] o = partialEq   -> checkPartialEq(base, compared)
      [] o = diff        -> checkDiff(base, compared)
      [] o = partialDiff -> checkPartialDiff(base, compared)
      [] o = sup         -> checkSup(base, compared)
      [] o = supEq       -> checkSupEq(base, compared)
      [] o = inf         -> checkInf(base, compared)
      [] o = infEq       -> checkInfEq(base, compared)
      [] o = contain     -> checkContain(base, compared)
      [] o = notContain  -> checkNotContain(base, compared)
      [] o = like        -> checkLike(base, compared)
      [] o = notLike     -> checkNotLike(base, compared)
      [] OTHER           -> FALSE

\* Filter.check
FilterCheck(f, actual) == OperationCheck(f.op, f.val, actual)

(***************************************************************************)
(* The values the filter specification draws from                          *)
(***************************************************************************)

MaxTextLen == 3
MaxSmallInt == 2
MaxBigStep == 4

TextAlphabet == {"a", "b", "\""}
Texts == UNION {[1..k -> TextAlphabet] : k \in 0..MaxTextLen}

\* The integers -MaxSmallInt..MaxSmallInt, and those from 2^53 - 1 to
\* 2^53 + MaxBigStep of either sign.
Int64s ==
    {NumOf(n) : n \in -MaxSmallInt..MaxSmallInt}
    \cup {[neg |-> s, hi |-> 2^26, lo |-> d, fr |-> 0] :
             s \in BOOLEAN, d \in 0..MaxBigStep}
    \cup {[neg |-> s, hi |-> 2^26 - 1, lo |-> LimbBase - 1, fr |-> 0] :
             s \in BOOLEAN}

\* A value a float64 holds exactly: any multiple of 1/2 below 2^52, any
\* integer up to 2^53, the even integers from there to 2^54.
IsFloat64(x) ==
    /\ x.fr \in {0, 500}
    /\ x.fr = 500 => x.hi < 2^25
    /\ x.hi >= 2^26 => x.lo % 2 = 0

Float64s ==
    {x \in Int64s : IsFloat64(x)}
    \cup {[neg |-> s, hi |-> 0, lo |-> n, fr |-> 500] :
             s \in BOOLEAN, n \in 0..MaxSmallInt}
    \cup {[NumZero EXCEPT !.neg = TRUE]}

Operations ==
    {eq, partialEq, diff, partialDiff, sup, supEq, inf, infEq,
     contain, notContain, like, notLike, "error"}

Scalars ==
    {BoolV(x) : x \in BOOLEAN} \cup {NilV}
    \cup {IntV(x) : x \in Int64s} \cup {FloatV(x) : x \in Float64s}
    \cup {StrV(x) : x \in Texts}

Literals ==
    Scalars
    \cup {ListV(<<IntV(NumOf(1)), FloatV(NumOf(1))>>),
          ListV(<<StrV(<<"a">>), StrV(<<"b">>)>>),
          ListV(<<>>)}

(***************************************************************************)
(* The filter specification: one Filter is evaluated against one actual    *)
(* value.                                                                  *)
(***************************************************************************)

BoolText(x) == IF x THEN "true" ELSE "false"

\* No query is being compiled.
\* The parser has been handed nothing, and no Value is being projected.
ParserIdle ==
    /\ doc = <<>>
    /\ ppc = "idle"
    /\ parser_b = <<>>
    /\ parser_c = <<>>
    /\ pret = [kind |-> "nil", at |-> 0]
    /\ perr = "none"
    /\ calls = <<>>
    /\ request = [stays |-> <<>>, conts |-> <<>>]
    /\ kpc = "idle"
    /\ kres = NilV
    /\ kerr = "none"

\* No key path is being searched.
SearchIdle ==
    /\ keys = <<>>
    /\ spc = "idle"
    /\ sres = <<>>
    /\ serr = "none"

\* No Parser is used again.
ReuseIdle ==
    /\ mem = [spare_b |-> <<>>, spare_c |-> <<>>, orphans |-> <<>>]
    /\ hist = [nparse |-> 0, writes |-> 0, resets |-> 0]
    /\ held = [v |-> [kind |-> "nil", at |-> 0], at |-> 0, seen |-> <<>>]

\* No string is being scanned or unescaped.
TextIdle ==
    /\ input = <<>>
    /\ scan = [err |-> "idle", str |-> [off |-> 0, len |-> 0], pos |-> 0]
    /\ un = [pc |-> "idle", buf |-> <<>>, b |-> <<>>, r |-> 0, moved |-> FALSE]

QueryIdle ==
    /\ cmd = <<>>
    /\ qpc = "idle"
    /\ qlevel = <<>>
    /\ qerr = "none"

FilterInit ==
    /\ flt \in [key : {<<"k">>}, op : Operations, val : Literals]
    /\ compareTo \in Scalars
    /\ fres = "pending"
    /\ QueryIdle
    /\ ReuseIdle
    /\ ParserIdle
    /\ SearchIdle
    /\ TextIdle

\* f.check(compareTo)
Check ==
    /\ fres = "pending"
    /\ fres' = BoolText(FilterCheck(flt, compareTo))
    /\ UNCHANGED <<flt, compareTo, qvars, pvars, kvars, svars, tvars, rvars>>

FilterNext == Check

SpecFilter == FilterInit /\ [][FilterNext]_vars

(***************************************************************************)
(* Claims about filter evaluation (checked under SpecFilter)               *)
(***************************************************************************)

\* sub occurs in s, stated from the definition of a substring.
IsSubstring(sub, s) ==
    \E i \in 0..(Len(s) - Len(sub)) :
        \A j \in 1..Len(sub) : s[i + j] = sub[j]

\* s without its quote characters.
RECURSIVE WithoutQuotes(_)
WithoutQuotes(s) ==
    IF s = <<>> THEN <<>>
    ELSE IF Head(s) = "\"" THEN WithoutQuotes(Tail(s))
    ELSE <<Head(s)>> \o WithoutQuotes(Tail(s))

Checked == fres # "pending"
StringCase == flt.val.ty = "string" /\ compareTo.ty = "string"

\* C3 as stated: for a string literal L and a string actual value A, === and
\* == are true exactly when L without its quotes is a substring of A, and
\* !== and != are the exact negation of that containment.
C3_EqualityIsContainment ==
    (Checked /\ StringCase) =>
        /\ flt.op \in {eq, partialEq} =>
              (fres = "true" <=> IsSubstring(WithoutQuotes(flt.val.s), compareTo.s))
        /\ flt.op \in {diff, partialDiff} =>
              (fres = "true" <=> ~IsSubstring(WithoutQuotes(flt.val.s), compareTo.s))

\* C3 amended: for a string literal L and a string actual value A, == is
\* true exactly when L without its quotes is a substring of A; === is true
\* exactly when A equals L as written, quotes included; !== and != are both
\* the exact negation of ===.
C3_Amended ==
    (Checked /\ StringCase) =>
        /\ flt.op = partialEq =>
              (fres = "true" <=> IsSubstring(WithoutQuotes(flt.val.s), compareTo.s))
        /\ flt.op = eq =>
              (fres = "true" <=> compareTo.s = flt.val.s)
        /\ flt.op \in {diff, partialDiff} =>
              (fres = "true" <=> compareTo.s # flt.val.s)

\* C3's case: == has matched a quoted literal inside a longer actual string.
C3_Witness ==
    /\ fres = "true"
    /\ flt.op = partialEq
    /\ flt.val = StrV(<<"\"", "b", "\"">>)
    /\ compareTo = StrV(<<"a", "b">>)

NumericOps == {eq, partialEq, diff, partialDiff, sup, supEq, inf, infEq}
IsNumeric(x) == x.ty \in {"int64", "float64"}
NumericCase == flt.op \in NumericOps /\ IsNumeric(flt.val) /\ IsNumeric(compareTo)

\* "left OP right" on two numbers.
Holds(o, left, right) ==
    CASE o \in {eq, partialEq}     -> NumEq(left, right)
      [] o \in {diff, partialDiff} -> ~NumEq(left, right)
      [] o = sup                   -> NumLess(right, left)
      [] o = supEq                 -> ~NumLess(left, right)
      [] o = inf                   -> NumLess(left, right)
      [] o = infEq                 -> ~NumLess(right, left)

\* The float64 nearest to a number of the model (below 2^54): the number
\* itself when a float64 holds it, else, for an odd integer above 2^53, the
\* neighbouring even integer whose half is even.
Widened(x) ==
    IF IsFloat64(x) THEN x
    ELSE IF (x.lo - 1) % 4 = 0 THEN [x EXCEPT !.lo = x.lo - 1]
    ELSE IF x.lo + 1 = LimbBase THEN [x EXCEPT !.hi = x.hi + 1, !.lo = 0]
    ELSE [x EXCEPT !.lo = x.lo + 1]

NumberOf(x) == IF x.ty = "int64" THEN x.i ELSE x.f

\* C4 as stated: for the eight numeric operators, a numeric literal and a
\* numeric actual value, the result is that of "actual OP literal" on the two
\* values widened to float64, whatever the two types (so an integer and the
\* float of the same value are interchangeable on either side).
C4_ComparedAfterWidening ==
    (Checked /\ NumericCase) =>
        (fres = "true" <=>
            Holds(flt.op, Widened(NumberOf(compareTo)), Widened(NumberOf(flt.val))))

\* C4 amended: the result is that of "actual OP literal", on the int64
\* values themselves when both are integers, and on the two values widened
\* to float64 when at least one is a float; so an integer and the float of
\* the same value are interchangeable on either side as long as every
\* integer involved is one a float64 holds exactly (magnitude up to 2^53).
C4_Amended ==
    (Checked /\ NumericCase) =>
        /\ (flt.val.ty = "int64" /\ compareTo.ty = "int64") =>
              (fres = "true" <=> Holds(flt.op, compareTo.i, flt.val.i))
        /\ (flt.val.ty = "float64" \/ compareTo.ty = "float64") =>
              (fres = "true" <=>
                  Holds(flt.op, Widened(NumberOf(compareTo)), Widened(NumberOf(flt.val))))
        /\ (IsFloat64(NumberOf(compareTo)) /\ IsFloat64(NumberOf(flt.val))) =>
              /\ fres = BoolText(FilterCheck(flt, FloatV(NumberOf(compareTo))))
              /\ fres = BoolText(FilterCheck(flt, IntV(NumberOf(compareTo))))
                    \/ NumberOf(compareTo).fr # 0
              /\ fres = BoolText(FilterCheck([flt EXCEPT !.val = FloatV(NumberOf(flt.val))],
                                             compareTo))

\* C4's case: an integer literal has matched a float actual value under >=.
C4_Witness ==
    /\ fres = "true"
    /\ flt.op = supEq
    /\ flt.val = IntV(NumOf(2))
    /\ compareTo = FloatV(NumOf(2))

\* C10 as stated: for a string literal L and a string actual value A, > is
\* true iff A > L, >= iff A >= L, < iff A < L and <= iff A <= L, in the
\* lexical order of strings.
C10_LexicalOrdering ==
    (Checked /\ StringCase) =>
        /\ flt.op = sup   => (fres = "true" <=> StrLess(flt.val.s, compareTo.s))
        /\ flt.op = supEq => (fres = "true" <=> ~StrLess(compareTo.s, flt.val.s))
        /\ flt.op = inf   => (fres = "true" <=> StrLess(compareTo.s, flt.val.s))
        /\ flt.op = infEq => (fres = "true" <=> ~StrLess(flt.val.s, compareTo.s))

\* C11 as stated: under ":" with a string literal L and a string actual value
\* A, both sides are lower-cased, the leading and trailing quotes are cut from
\* A, and the result is true iff the lower-cased L is a substring of that
\* A; "!:" is the exact negation; both are false when a side is not a string.
C11_LiteralInsideActual ==
    (Checked /\ flt.op \in {contain, notContain}) =>
        IF StringCase
        THEN fres = BoolText((flt.op = contain) <=>
                        IsSubstring(ToLower(flt.val.s), LoweredTrimmed(compareTo.s)))
        ELSE fres = "false"

(***************************************************************************)
(* Query compiler (src/parser.go 391-392, 429-458, 813-949)                *)
(***************************************************************************)

\* The bytes a character takes in a Go string.
RuneLen(ch) == IF ch = "U+00E9" THEN 2 ELSE 1

RECURSIVE ByteLen(_)
ByteLen(s) == IF s = <<>> THEN 0 ELSE RuneLen(Head(s)) + ByteLen(Tail(s))

\* x := value; Body(x): the value is computed once and named.
With(value, Body(_)) == Body(value)

\* A character class of a regular expression, or of a scanning loop: its
\* characters, or those it excludes.
InClass(class, ch) == (ch \in class.chars) # class.negated

\* The end of the longest run of characters of a class that starts after
\* the first pos characters of s.
RunEnd(s, pos, class) ==
    IF pos >= Len(s) THEN pos
    ELSE CHOOSE q \in pos..Len(s) :
            /\ \A i \in (pos + 1)..q : InClass(class, s[i])
            /\ (q = Len(s) \/ ~InClass(class, s[q + 1]))

\* The ends a greedy repetition (at least min characters) tries, in the
\* order it tries them: the longest first.
GreedyEnds(s, pos, class, min) ==
    With(RunEnd(s, pos, class), LAMBDA top :
        [i \in 1..(top - pos - min + 1) |-> top - i + 1])

NameChars  == [chars |-> LowerLetters \cup {"_"}, negated |-> FALSE]
KeyChars   == [chars |-> LowerLetters \cup UpperLetters \cup {"_", "-"}, negated |-> FALSE]
OpChars    == [chars |-> {">", "<", "!", ":", "="}, negated |-> FALSE]
SpaceChars == [chars |-> {" ", "\t", "\n", "\f", "\r"}, negated |-> FALSE]
NotGroupChars == [chars |-> {"{", "}", "(", ")"}, negated |-> TRUE]
BareValueChars ==
    [chars |-> {"&", "(", ")", "{", "}", "\""} \cup SpaceChars.chars, negated |-> TRUE]
QuotedValueChars == [chars |-> {"&", "(", ")", "{", "}"}, negated |-> TRUE]

\* cmdRegex.FindStringSubmatch: ^([a-z_]+)?(?:\(([^{}()]*)\))?{(.*)}$
\* Every repetition is followed by a character outside its class, so the
\* match, when there is one, is the only one.
cmdRegexMatch(s) ==
    With(RunEnd(s, 0, NameChars), LAMBDA p :
    With(RunEnd(s, p + 1, NotGroupChars), LAMBDA fe :
    With(p < Len(s) /\ s[p + 1] = "(" /\ fe < Len(s) /\ s[fe + 1] = ")",
         LAMBDA hasFilter :
    With(IF hasFilter THEN fe + 1 ELSE p, LAMBDA q :
        IF /\ q + 2 <= Len(s)
           /\ s[q + 1] = "{"
           /\ s[Len(s)] = "}"
           /\ \A i \in (q + 2)..(Len(s) - 1) : s[i] # "\n"
        THEN [nil |-> FALSE,
              m1 |-> Slice(s, 0, p),
              m2 |-> IF hasFilter THEN Slice(s, p + 1, fe) ELSE <<>>,
              m3 |-> Slice(s, q + 1, Len(s) - 1)]
        ELSE [nil |-> TRUE, m1 |-> <<>>, m2 |-> <<>>, m3 |-> <<>>]))))

\* The third group of filterRegex, (?:[^&(){}\s")]+|(?:"[^&(){}]*")), from
\* pos: the ends it tries, the bare alternative first.
ValueEnds(s, pos) ==
    GreedyEnds(s, pos, BareValueChars, 1)
    \o (IF pos < Len(s) /\ s[pos + 1] = "\""
        THEN SelectSeq(GreedyEnds(s, pos + 1, QuotedValueChars, 0),
                       LAMBDA r : r > pos + 1 /\ s[r] = "\"")
        ELSE <<>>)

\* The first of a sequence of positions, as a backtracking search takes
\* it; -1 when there is none.
First(ends) == IF ends = <<>> THEN -1 ELSE Head(ends)

\* One iteration of filterRegex's repeated group,
\*   ([a-zA-Z_-]+)\s*([><!:=]+)\s*(value)\s*
\* Each part is greedy: it tries its longest run first and gives characters
\* back while what follows it fails.  The trailing \s* never fails.
ValueStart(s, o) ==
    First(SelectSeq(GreedyEnds(s, o, SpaceChars, 0), LAMBDA w2 : ValueEnds(s, w2) # <<>>))

OpEnd(s, w1) ==
    First(SelectSeq(GreedyEnds(s, w1, OpChars, 1), LAMBDA o : ValueStart(s, o) >= 0))

OpStart(s, k) ==
    First(SelectSeq(GreedyEnds(s, k, SpaceChars, 0), LAMBDA w1 : OpEnd(s, w1) >= 0))

KeyEnd(s, pos) ==
    First(SelectSeq(GreedyEnds(s, pos, KeyChars, 1), LAMBDA k : OpStart(s, k) >= 0))

NoMatch == [ok |-> FALSE, end |-> 0, m1 |-> <<>>, m2 |-> <<>>, m3 |-> <<>>]

ClauseMatch(s, pos) ==
    With(KeyEnd(s, pos), LAMBDA k :
        IF k < 0 THEN NoMatch
        ELSE With(OpStart(s, k), LAMBDA w1 :
             With(OpEnd(s, w1), LAMBDA o :
             With(ValueStart(s, o), LAMBDA w2 :
             With(Head(ValueEnds(s, w2)), LAMBDA v :
                 [ok |-> TRUE,
                  end |-> RunEnd(s, v, SpaceChars),
                  m1 |-> Slice(s, pos, k),
                  m2 |-> Slice(s, w1, o),
                  m3 |-> Slice(s, w2, v)])))))

\* filterRegex, (?:clause)+, from pos.  After each iteration another one is
\* tried before stopping; nothing follows the repetition, so the search
\* never gives an iteration back.  The groups keep the last iteration's
\* text.
RECURSIVE filterRegexMatch(_, _)
filterRegexMatch(s, pos) ==
    With(ClauseMatch(s, pos), LAMBDA c :
        IF ~c.ok THEN NoMatch
        ELSE With(filterRegexMatch(s, c.end), LAMBDA more :
                 IF more.ok THEN more ELSE c))

\* filterRegex.FindAllStringSubmatch(s, -1), searching on from pos: the
\* leftmost match, then on from its end.
RECURSIVE FindAllStringSubmatch(_, _)
FindAllStringSubmatch(s, pos) ==
    IF pos >= Len(s) THEN <<>>
    ELSE With(filterRegexMatch(s, pos), LAMBDA m :
             (IF m.ok THEN <<m>> ELSE <<>>)
             \o FindAllStringSubmatch(s, IF m.ok THEN m.end ELSE pos + 1))

DigitValue(ch) == Code(ch) - Code("0")

IsDigits(s) == \A i \in 1..Len(s) : s[i] \in Digits

\* The value of a run of decimal digits, as a magnitude.
RECURSIVE DigitsValue(_, _)
DigitsValue(ds, acc) ==
    IF ds = <<>> THEN acc
    ELSE LET t == acc.lo * 10 + DigitValue(Head(ds))
         IN  DigitsValue(Tail(ds),
                 [acc EXCEPT !.hi = acc.hi * 10 + t \div LimbBase,
                             !.lo = t % LimbBase])

Unsigned(s) == IF s # <<>> /\ Head(s) \in {"+", "-"} THEN Tail(s) ELSE s
IsNegative(s) == s # <<>> /\ Head(s) = "-"

\* strconv.ParseInt(v, 10, 64), for values of the model's range.
ParseInt(s) ==
    LET ds == Unsigned(s)
    IN  IF ds # <<>> /\ IsDigits(ds)
        THEN [ok |-> TRUE,
              val |-> [DigitsValue(ds, NumZero) EXCEPT !.neg = IsNegative(s)]]
        ELSE [ok |-> FALSE, val |-> NumZero]

DigitChars == [chars |-> Digits, negated |-> FALSE]

\* The exponent part of a float text: nothing, or e or E, an optional sign
\* and at least one digit.
Exponent(ex) ==
    IF ex = <<>> THEN [ok |-> TRUE, e |-> 0]
    ELSE IF /\ Head(ex) \in {"e", "E"}
            /\ Unsigned(Tail(ex)) # <<>>
            /\ IsDigits(Unsigned(Tail(ex)))
    THEN [ok |-> TRUE,
          e |-> IF IsNegative(Tail(ex))
                THEN 0 - DigitsValue(Unsigned(Tail(ex)), NumZero).lo
                ELSE DigitsValue(Unsigned(Tail(ex)), NumZero).lo]
    ELSE [ok |-> FALSE, e |-> 0]

\* x * 10^e, for the products and quotients the limbs hold exactly.
RECURSIVE Scaled(_, _)
Scaled(x, e) ==
    IF e = 0 THEN x
    ELSE IF e > 0
    THEN With(x.lo * 10 + (x.fr * 10) \div 1000, LAMBDA t :
             Scaled([x EXCEPT !.hi = x.hi * 10 + t \div LimbBase,
                              !.lo = t % LimbBase,
                              !.fr = (x.fr * 10) % 1000], e - 1))
    ELSE With((x.hi % 10) * LimbBase + x.lo, LAMBDA t :
             Scaled([x EXCEPT !.hi = x.hi \div 10,
                              !.lo = t \div 10,
                              !.fr = ((t % 10) * 1000 + x.fr) \div 10], e + 1))

\* strconv.ParseFloat(v, 64) on decimal text: an optional sign, digits with
\* at most one point, at least one digit, and an optional exponent.  The
\* fraction is kept to three digits and the value below 2^57 (the model
\* draws none beyond).
ParseFloat(s) ==
    With(Unsigned(s), LAMBDA ds :
    With(RunEnd(ds, 0, DigitChars), LAMBDA ie :
    With(ie < Len(ds) /\ ds[ie + 1] = ".", LAMBDA point :
    With(IF point THEN RunEnd(ds, ie + 1, DigitChars) ELSE ie, LAMBDA me :
    With(IF point THEN Slice(ds, ie + 1, me) ELSE <<>>, LAMBDA fs :
    With(Exponent(Drop(ds, me)), LAMBDA ex :
        IF ex.ok /\ ie + Len(fs) > 0
        THEN With(DigitsValue(Slice(ds, 0, ie), NumZero), LAMBDA whole :
             With(DigitsValue(SubSeq(fs \o <<"0", "0", "0">>, 1, 3), NumZero).lo,
                  LAMBDA frac :
             With(Scaled([whole EXCEPT !.fr = frac], ex.e), LAMBDA val :
                 [ok |-> TRUE,
                  val |-> IF val.fr = 0
                          THEN [ToFloat64(val) EXCEPT !.neg = IsNegative(s)]
                          ELSE [val EXCEPT !.neg = IsNegative(s)]])))
        ELSE [ok |-> FALSE, val |-> NumZero]))))))

\* typed
typed(v) ==
    CASE v = <<"t", "r", "u", "e">>      -> BoolV(TRUE)
      [] v = <<"f", "a", "l", "s", "e">> -> BoolV(FALSE)
      [] v = <<"n", "u", "l", "l">>      -> NilV
      [] OTHER ->
            With(ParseInt(v), LAMBDA asInt :
                IF asInt.ok THEN IntV(asInt.val)
                ELSE With(ParseFloat(v), LAMBDA asFloat :
                         IF asFloat.ok THEN FloatV(asFloat.val) ELSE StrV(v)))

\* findOperation
findOperation(line) ==
    CASE line = <<"=", "=", "=">> -> eq
      [] line = <<"=", "=">>      -> partialEq
      [] line = <<"!", "=", "=">> -> diff
      [] line = <<"!", "=">>      -> partialDiff
      [] line = <<">">>           -> sup
      [] line = <<">", "=">>      -> supEq
      [] line = <<"<">>           -> inf
      [] line = <<"<", "=">>      -> infEq
      [] line = <<":">>           -> contain
      [] line = <<"!", ":">>      -> notContain
      [] line = <<":", ":">>      -> like
      [] line = <<"!", ":", ":">> -> notLike
      [] OTHER                    -> "error"

HasThreeGroups(m) == Len(m.m1) > 0 /\ Len(m.m2) > 0 /\ Len(m.m3) > 0

\* newFilter: one Filter for each match of filterRegex whose three groups
\* are not empty.
newFilter(cmdText) ==
    With(SelectSeq(FindAllStringSubmatch(cmdText, 0), HasThreeGroups), LAMBDA kept :
        [i \in 1..Len(kept) |->
            [key |-> kept[i].m1,
             op  |-> findOperation(kept[i].m2),
             val |-> typed(kept[i].m3)]])

\* string(runes[from:to]) for a rune slice of capacity rcap: a slice may
\* reach past the length up to the capacity, where the runes are zero; past
\* the capacity, or with from > to, the slice expression panics.
RuneSlice(runes, rcap, from, to) ==
    IF from > to \/ to > rcap
    THEN [panic |-> TRUE, s |-> <<>>]
    ELSE [panic |-> FALSE,
          s |-> [i \in 1..(to - from) |->
                    IF from + i <= Len(runes) THEN runes[from + i] ELSE "NUL"]]

\* The loop of splitComa from the k-th character on: index is that
\* character's byte offset in line, while runes is indexed by character.
RECURSIVE splitComaLoop(_, _, _, _, _, _, _)
splitComaLoop(line, rcap, k, index, count, firstIndex, array) ==
    IF k > Len(line)
    THEN IF firstIndex < ByteLen(line)
         THEN LET last == RuneSlice(line, rcap, firstIndex, ByteLen(line))
              IN  [panic |-> last.panic, array |-> Append(array, last.s)]
         ELSE [panic |-> FALSE, array |-> array]
    ELSE LET char == line[k]
             next == index + RuneLen(char)
         IN  CASE char = "{" ->
                    splitComaLoop(line, rcap, k + 1, next, count + 1, firstIndex, array)
               [] char = "}" ->
                    splitComaLoop(line, rcap, k + 1, next, count - 1, firstIndex, array)
               [] char = "," /\ count = 0 ->
                    LET piece == RuneSlice(line, rcap, firstIndex, index)
                    IN  IF piece.panic
                        THEN [panic |-> TRUE, array |-> array]
                        ELSE splitComaLoop(line, rcap, k + 1, next, count,
                                           index + 1, Append(array, piece.s))
               [] OTHER ->
                    splitComaLoop(line, rcap, k + 1, next, count, firstIndex, array)

\* splitComa, with the capacity []rune(line) got: its length plus slack.
splitComa(line, slack) ==
    splitComaLoop(line, Len(line) + slack, 1, 0, 0, 0, <<>>)

\* newLevel
newLevel == [filters |-> <<>>, next |-> <<>>, retrieve |-> <<>>]

\* m[k] = v on a Go map.
MapPut(m, k, v) ==
    [x \in (DOMAIN m) \cup {k} |-> IF x = k THEN v ELSE m[x]]

\* strings.ContainsAny(attr, "(){}")
ContainsAnyGroup(attr) == \E i \in 1..Len(attr) : ~InClass(NotGroupChars, attr[i])

\* parseQuery.  cmdRegex.FindStringSubmatch returns nil when cmd does not
\* match, and matches[2] then panics (index out of range); a panic in
\* splitComa or in a child's parseQuery unwinds through the callers.  The
\* error result is nil on every return.
RECURSIVE parseQuery(_, _)
RECURSIVE parseAttrs(_, _, _)

parseAttrs(attrs, lvl, slack) ==
    IF attrs = <<>> THEN [panic |-> FALSE, level |-> lvl]
    ELSE IF ContainsAnyGroup(Head(attrs))
         THEN With(parseQuery(Head(attrs), slack), LAMBDA child :
                  IF child.panic
                  THEN [panic |-> TRUE, level |-> lvl]
                  ELSE parseAttrs(Tail(attrs),
                           [lvl EXCEPT !.next = MapPut(lvl.next, child.name, child.level)],
                           slack))
         ELSE parseAttrs(Tail(attrs),
                  [lvl EXCEPT !.retrieve = Append(lvl.retrieve, Head(attrs))],
                  slack)

Panicked == [panic |-> TRUE, level |-> newLevel, name |-> <<>>]

parseQuery(cmdText, slack) ==
    With(cmdRegexMatch(cmdText), LAMBDA matches :
        IF matches.nil THEN Panicked
        ELSE With([newLevel EXCEPT
                     !.filters = IF Len(matches.m2) > 0
                                 THEN newFilter(matches.m2)
                                 ELSE <<>>],
                  LAMBDA lvl :
                 IF Len(matches.m3) = 0
                 THEN [panic |-> FALSE, level |-> lvl, name |-> matches.m1]
                 ELSE With(splitComa(matches.m3, slack), LAMBDA split :
                          IF split.panic THEN Panicked
                          ELSE With(parseAttrs(split.array, lvl, slack), LAMBDA walked :
                                   [panic |-> walked.panic,
                                    level |-> walked.level,
                                    name  |-> matches.m1]))))

(***************************************************************************)
(* The query specification: one query text is compiled by ParseQuery.      *)
(***************************************************************************)

MaxCmdLen == 5
MaxClauses == 3
MaxRuneSlack == 1

CmdAlphabet == {"a", "b", ",", "{", "}", "(", ")", "U+00E9"}
ShortCmds == UNION {[1..k -> CmdAlphabet] : k \in 0..MaxCmdLen}

\* `key OP value` clauses, as their three parts.
Clauses ==
    { [key |-> <<"x">>, op |-> <<">">>, val |-> <<"1">>],
      [key |-> <<"y">>, op |-> <<"<", "=">>, val |-> <<"2", ".", "5">>],
      [key |-> <<"n">>, op |-> <<"=", "=">>, val |-> <<"\"", "b", "\"">>],
      [key |-> <<"k">>, op |-> <<"~">>, val |-> <<"v">>] }
ClauseLists == UNION {[1..k -> Clauses] : k \in 0..MaxClauses}
Separators == {<<" ">>, <<"&", "&">>}

ClauseText(c) == c.key \o c.op \o c.val

RECURSIVE JoinClauses(_, _)
JoinClauses(cl, sep) ==
    IF cl = <<>> THEN <<>>
    ELSE IF Len(cl) = 1 THEN ClauseText(cl[1])
    ELSE ClauseText(cl[1]) \o sep \o JoinClauses(Tail(cl), sep)

FilterCmd(cl, sep) == <<"a", "(">> \o JoinClauses(cl, sep) \o <<")", "{", "b", "}">>
FilterCmds == {FilterCmd(cl, sep) : cl \in ClauseLists, sep \in Separators}

\* a{b,c(x>1){d,e}}
ExampleCmd ==
    <<"a", "{", "b", ",", "c", "(", "x", ">", "1", ")", "{", "d", ",", "e", "}", "}">>

Cmds == ShortCmds \cup FilterCmds \cup {ExampleCmd}

\* No filter is being evaluated.
FilterIdle ==
    /\ flt = <<>>
    /\ compareTo = <<>>
    /\ fres = "idle"

QueryInit ==
    /\ cmd \in Cmds
    /\ qpc = "pending"
    /\ qlevel = newLevel
    /\ qerr = "none"
    /\ FilterIdle
    /\ ParserIdle
    /\ SearchIdle
    /\ TextIdle
    /\ ReuseIdle

\* ParseQuery(cmd) returns its Level and a nil error.
ParseQueryReturns ==
    /\ qpc = "pending"
    /\ \E slack \in 0..MaxRuneSlack :
          With(parseQuery(cmd, slack), LAMBDA r :
              /\ ~r.panic
              /\ qlevel' = r.level)
    /\ qpc' = "returned"
    /\ qerr' = "nil"
    /\ UNCHANGED <<cmd, fvars, pvars, kvars, svars, tvars, rvars>>

\* ParseQuery(cmd) panics.
ParseQueryPanics ==
    /\ qpc = "pending"
    /\ \E slack \in 0..MaxRuneSlack : parseQuery(cmd, slack).panic
    /\ qpc' = "panicked"
    /\ UNCHANGED <<cmd, qlevel, qerr, fvars, pvars, kvars, svars, tvars, rvars>>

QueryNext == ParseQueryReturns \/ ParseQueryPanics

SpecQuery == QueryInit /\ [][QueryNext]_vars

(***************************************************************************)
(* Claims about the query compiler.                                        *)
(***************************************************************************)

IsAscii(s) == \A i \in 1..Len(s) : RuneLen(s[i]) = 1

\* The children text of a query that matches the outer shape.
ChildrenText(s) == cmdRegexMatch(s).m3

\* C6: ParseQuery returns a compile error, and neither a Level nor a crash,
\* for every query text that does not match the outer name(filters){children}
\* shape.
C6_MalformedQueryIsAnError ==
    (qpc # "pending" /\ cmdRegexMatch(cmd).nil)
        => (qpc = "returned" /\ qerr = "error")

\* The runs of text between the depth-zero commas of line, in order, where
\* depth counts '{' up and '}' down; an empty run after the last comma is
\* not a child.
RECURSIVE Runs(_, _, _)
Runs(line, depth, run) ==
    IF line = <<>> THEN (IF run = <<>> THEN <<>> ELSE <<run>>)
    ELSE CASE Head(line) = "," /\ depth = 0 -> <<run>> \o Runs(Tail(line), depth, <<>>)
           [] Head(line) = "{" -> Runs(Tail(line), depth + 1, Append(run, "{"))
           [] Head(line) = "}" -> Runs(Tail(line), depth - 1, Append(run, "}"))
           [] OTHER -> Runs(Tail(line), depth, Append(run, Head(line)))

Children(s) == Runs(ChildrenText(s), 0, <<>>)

IsNested(child) == ContainsAnyGroup(child)

\* C7: when the query matches the outer shape and a nested child is itself
\* malformed, compiling still succeeds with a nil error and a Level is
\* installed for that child.
C7_MalformedChildIsSwallowed ==
    (/\ qpc # "pending"
     /\ IsAscii(cmd)
     /\ ~cmdRegexMatch(cmd).nil
     /\ \E i \in 1..Len(Children(cmd)) :
            IsNested(Children(cmd)[i]) /\ cmdRegexMatch(Children(cmd)[i]).nil)
        => (qpc = "returned" /\ qerr = "nil" /\ DOMAIN qlevel.next # {})

\* A clause whose operator is one of the twelve.
IsClause(c) == findOperation(c.op) # "error"

FilterOf(c) == [key |-> c.key, op |-> findOperation(c.op), val |-> typed(c.val)]

\* C8: a filter section of n space-separated `key OP value` clauses compiles
\* to n Filters in source order, one per clause, each with the clause's key,
\* operator and typed literal.
C8_OneFilterPerClause ==
    \A cl \in ClauseLists :
        (/\ qpc = "returned"
         /\ cmd = FilterCmd(cl, <<" ">>)
         /\ \A i \in 1..Len(cl) : IsClause(cl[i]))
            => qlevel.filters = [i \in 1..Len(cl) |-> FilterOf(cl[i])]

\* A query text, and each nested child of it, matches the outer shape.
RECURSIVE WellFormed(_)
WellFormed(s) ==
    /\ ~cmdRegexMatch(s).nil
    /\ \A i \in 1..Len(Children(s)) :
          IsNested(Children(s)[i]) => WellFormed(Children(s)[i])

IsPlain(child) == ~IsNested(child)

\* The Level the children of a well-formed query text give: the plain
\* children in retrieve, each nested child's Level under its name.
RECURSIVE LevelOf(_)
LevelOf(s) ==
    With(Children(s), LAMBDA ch :
        [filters  |-> IF Len(cmdRegexMatch(s).m2) > 0
                      THEN newFilter(cmdRegexMatch(s).m2) ELSE <<>>,
         retrieve |-> SelectSeq(ch, IsPlain),
         next     |-> [n \in {cmdRegexMatch(ch[i]).m1 :
                                i \in {j \in 1..Len(ch) : IsNested(ch[j])}} |->
                          LevelOf(ch[CHOOSE i \in 1..Len(ch) :
                                        /\ IsNested(ch[i])
                                        /\ cmdRegexMatch(ch[i]).m1 = n
                                        /\ \A j \in (i + 1)..Len(ch) :
                                              IsNested(ch[j]) => cmdRegexMatch(ch[j]).m1 # n])]])

\* C9: the children text is split at its depth-zero commas and nowhere else,
\* no other character is lost, plain children go to retrieve and every other
\* child becomes a child Level under its name.
C9_ChildrenSplitAtDepthZero ==
    (qpc # "pending" /\ WellFormed(cmd))
        => (qpc = "returned" /\ qlevel = LevelOf(cmd))

(***************************************************************************)
(* The parser (src/parser.go 17-365) and the value tree (src/value.go)     *)
(*                                                                         *)
(* A Go string of the parser is a view of Parser.b: its offset and length. *)
(* The string a parsing function works on is the rest of the buffer from   *)
(* an offset.  A *Value is a reference: nil, one of the five shared        *)
(* values, or the place of a Value in the cache.                           *)
(***************************************************************************)

TypeObject    == "object"
TypeArray     == "array"
TypeString    == "string"
TypeNumber    == "number"
TypeTrue      == "true"
TypeFalse     == "false"
TypeNull      == "null"
typeRawString == "raw string"
typeRawNumber == "raw number"

nil         == [kind |-> "nil", at |-> 0]
valueTrue   == [kind |-> "valueTrue", at |-> 0]
valueFalse  == [kind |-> "valueFalse", at |-> 0]
valueNull   == [kind |-> "valueNull", at |-> 0]
emptyObject == [kind |-> "emptyObject", at |-> 0]
emptyArray  == [kind |-> "emptyArray", at |-> 0]

\* &c.vs[i - 1]
CacheRef(i) == [kind |-> "cache", at |-> i]

NoString == [off |-> 0, len |-> 0]

\* buf[from:to] as a string header.
View(from, to) == [off |-> from, len |-> to - from]

\* The text a string header shows.
StringAt(buf, str) == SubSeq(buf, str.off + 1, str.off + str.len)

\* Value{}, and a Value after reset.
ZeroValue == [t |-> TypeNull, s |-> NoString, n |-> NumZero, a |-> <<>>, o |-> <<>>]

\* *v
Deref(c, v) ==
    CASE v.kind = "cache"       -> c[v.at]
      [] v.kind = "valueTrue"   -> [ZeroValue EXCEPT !.t = TypeTrue]
      [] v.kind = "valueFalse"  -> [ZeroValue EXCEPT !.t = TypeFalse]
      [] v.kind = "valueNull"   -> [ZeroValue EXCEPT !.t = TypeNull]
      [] v.kind = "emptyObject" -> [ZeroValue EXCEPT !.t = TypeObject]
      [] v.kind = "emptyArray"  -> [ZeroValue EXCEPT !.t = TypeArray]

\* cache.getValue: the cache with one more Value, reset; the Value got is
\* the last one.
getValue(c) == Append(c, ZeroValue)

\* cache.reset
cacheReset(c) == <<>>

WhitespaceChars == [chars |-> {" ", "\r", "\n", "\t"}, negated |-> FALSE]

\* skipWS as it would be if it skipped every white space character of \s,
\* the form feed included.
skipWSFormFeedToo(buf, pos) ==
    IF pos >= Len(buf) \/ (Code(buf[pos + 1]) > 32) THEN pos
    ELSE RunEnd(buf, pos, SpaceChars)

\* skipWS on buf[pos:]: the offset the rest begins at.  The fast path
\* returns at once on a byte above 0x20.
skipWS(buf, pos) ==
    IF pos >= Len(buf) \/ (Code(buf[pos + 1]) > 32) THEN pos
    ELSE RunEnd(buf, pos, WhitespaceChars)

\* strings.IndexByte(buf[from:], ch) as an offset in buf, or -1.
IndexByte(buf, from, ch) ==
    With({i \in from..(Len(buf) - 1) : buf[i + 1] = ch}, LAMBDA hits :
        IF hits = {} THEN -1 ELSE CHOOSE i \in hits : \A j \in hits : i <= j)

HasPrefixAt(buf, pos, p) ==
    /\ pos + Len(p) <= Len(buf)
    /\ SubSeq(buf, pos + 1, pos + Len(p)) = p

RawString(err, str, pos) == [err |-> err, str |-> str, pos |-> pos]

\* The start of the run of backslashes that ends just before the quote at
\* n, looking no further back than from.
BackslashRunStart(buf, from, n) ==
    CHOOSE i \in from..(n - 1) :
        /\ \A j \in (i + 1)..n : buf[j] = "\\"
        /\ (i = from \/ buf[i] # "\\")

RECURSIVE parseRawStringSlow(_, _, _, _)

\* The slow path as it would be if every quote that follows a backslash
\* were an escaped one, however many backslashes come before it.
parseRawStringSlowAnyBackslash(buf, start, from, n) ==
    With(IndexByte(buf, n + 1, "\""), LAMBDA m :
        IF m < 0 THEN RawString("missing closing '\"'", NoString, Len(buf))
        ELSE IF m = n + 1 \/ buf[m] # "\\"
        THEN RawString("nil", View(start, m), m + 1)
        ELSE parseRawStringSlow(buf, start, n + 1, m))

\* The slow path of parseRawString: the string began at start, the text
\* still to search at from, and the quote at n follows a backslash.
parseRawStringSlow(buf, start, from, n) ==
    IF (n - BackslashRunStart(buf, from, n)) % 2 = 0
    THEN RawString("nil", View(start, n), n + 1)
    ELSE With(IndexByte(buf, n + 1, "\""), LAMBDA m :
             IF m < 0 THEN RawString("missing closing '\"'", NoString, Len(buf))
             ELSE IF m = n + 1 \/ buf[m] # "\\"
             THEN RawString("nil", View(start, m), m + 1)
             ELSE parseRawStringSlow(buf, start, n + 1, m))

\* parseRawString on buf[pos:]: the string between the quotes, escapes
\* left as they are, and the offset of the tail.
parseRawString(buf, pos) ==
    IF pos >= Len(buf) \/ buf[pos + 1] # "\""
    THEN RawString("missing opening '\"'", NoString, pos)
    ELSE With(IndexByte(buf, pos + 1, "\""), LAMBDA n :
             IF n < 0 THEN RawString("missing closing '\"'", NoString, Len(buf))
             ELSE IF n = pos + 1 \/ buf[n] # "\\"
             THEN RawString("nil", View(pos + 1, n), n + 1)
             ELSE parseRawStringSlow(buf, pos + 1, pos + 1, n))

NumberChars == [chars |-> Digits \cup {"-", ".", "e", "E", "+"}, negated |-> FALSE]

\* parseRawNumber as it would be if a number had no exponent.
parseRawNumberNoExponent(buf, pos) ==
    With(RunEnd(buf, pos, [chars |-> Digits \cup {"-", "."}, negated |-> FALSE]),
         LAMBDA end :
            IF end = pos
            THEN RawString("unexpected char", NoString, pos)
            ELSE RawString("nil", View(pos, end), end))

\* parseRawNumber on buf[pos:], which is not empty.
parseRawNumber(buf, pos) ==
    With(RunEnd(buf, pos, NumberChars), LAMBDA end :
        IF end = pos
        THEN RawString("unexpected char", NoString, pos)
        ELSE RawString("nil", View(pos, end), end))

\* What a parsing function returns, with the cache it leaves.
Parsed(v, pos, c) == [err |-> "nil", v |-> v, pos |-> pos, c |-> c]
Failed(err, pos, c) == [err |-> err, v |-> nil, pos |-> pos, c |-> c]

RECURSIVE parseValue(_, _, _)
RECURSIVE parseArray(_, _, _)
RECURSIVE parseArrayLoop(_, _, _, _)
RECURSIVE parseObject(_, _, _)
RECURSIVE parseObjectLoop(_, _, _, _)

\* The loop of parseArray from buf[pos:], for the array c[a].
parseArrayLoop(buf, pos, c, a) ==
    With(parseValue(buf, skipWS(buf, pos), c), LAMBDA r :
        IF r.err # "nil" THEN Failed("cannot parse array value", r.pos, r.c)
        ELSE With([r.c EXCEPT ![a].a = Append(@, r.v)], LAMBDA c2 :
             With(skipWS(buf, r.pos), LAMBDA p :
                 IF p >= Len(buf) THEN Failed("unexpected end of array", p, c2)
                 ELSE IF buf[p + 1] = "," THEN parseArrayLoop(buf, p + 1, c2, a)
                 ELSE IF buf[p + 1] = "]" THEN Parsed(CacheRef(a), p + 1, c2)
                 ELSE Failed("missing ',' after array value", p, c2))))

parseArray(buf, pos, c) ==
    With(skipWS(buf, pos + 1), LAMBDA p :
        IF p >= Len(buf) THEN Failed("missing ']'", p, c)
        ELSE IF buf[p + 1] = "]" THEN Parsed(emptyArray, p + 1, c)
        ELSE parseArrayLoop(buf, p,
                 [getValue(c) EXCEPT ![Len(c) + 1].t = TypeArray], Len(c) + 1))

\* The rest of one turn of parseObject's loop once the key is read: the
\* key/value pair is the last of the object c[o].
ObjectValue(buf, pos, c, o) ==
    With(skipWS(buf, pos), LAMBDA p :
        IF p >= Len(buf) \/ buf[p + 1] # ":"
        THEN Failed("missing ':' after object key", p, c)
        ELSE With(parseValue(buf, skipWS(buf, p + 1), c), LAMBDA r :
                 IF r.err # "nil" THEN Failed("cannot parse object value", r.pos, r.c)
                 ELSE With([r.c EXCEPT ![o].o[Len(r.c[o].o)].v = r.v], LAMBDA c2 :
                      With(skipWS(buf, r.pos), LAMBDA q :
                          IF q >= Len(buf) THEN Failed("unexpected end of object", q, c2)
                          ELSE IF buf[q + 1] = "," THEN parseObjectLoop(buf, q + 1, c2, o)
                          ELSE IF buf[q + 1] = "}" THEN Parsed(CacheRef(o), q + 1, c2)
                          ELSE Failed("missing ',' after object value", q, c2)))))

\* The loop of parseObject from buf[pos:], for the object c[o]; getKV adds
\* an empty key/value pair to it.
parseObjectLoop(buf, pos, c, o) ==
    With([c EXCEPT ![o].o = Append(@, [k |-> NoString, v |-> nil])], LAMBDA c1 :
    With(parseRawString(buf, skipWS(buf, pos)), LAMBDA key :
        IF key.err # "nil" THEN Failed("cannot parse object key", key.pos, c1)
        ELSE ObjectValue(buf, key.pos,
                 [c1 EXCEPT ![o].o[Len(c1[o].o)].k = key.str], o)))

parseObject(buf, pos, c) ==
    With(skipWS(buf, pos + 1), LAMBDA p :
        IF p >= Len(buf) THEN Failed("missing '}'", p, c)
        ELSE IF buf[p + 1] = "}" THEN Parsed(emptyObject, p + 1, c)
        ELSE parseObjectLoop(buf, p,
                 [getValue(c) EXCEPT ![Len(c) + 1].t = TypeObject], Len(c) + 1))

\* A Value got from the cache for a raw string or a raw number.
RawValue(t, raw, c) ==
    IF raw.err # "nil" THEN Failed(raw.err, raw.pos, c)
    ELSE Parsed(CacheRef(Len(c) + 1), raw.pos,
             [getValue(c) EXCEPT ![Len(c) + 1].t = t, ![Len(c) + 1].s = raw.str])

\* A keyword of the grammar, for the shared Value v.
Keyword(buf, pos, c, word, v) ==
    IF HasPrefixAt(buf, pos, word)
    THEN Parsed(v, pos + Len(word), c)
    ELSE Failed("unexpected value found", pos, c)

parseValue(buf, pos, c) ==
    IF pos >= Len(buf) THEN Failed("cannot parse empty string", pos, c)
    ELSE CASE buf[pos + 1] = "{"  -> parseObject(buf, pos, c)
           [] buf[pos + 1] = "["  -> parseArray(buf, pos, c)
           [] buf[pos + 1] = "\"" -> RawValue(typeRawString, parseRawString(buf, pos), c)
           [] buf[pos + 1] = "t"  -> Keyword(buf, pos, c, <<"t", "r", "u", "e">>, valueTrue)
           [] buf[pos + 1] = "f"  -> Keyword(buf, pos, c, <<"f", "a", "l", "s", "e">>, valueFalse)
           [] buf[pos + 1] = "n"  -> Keyword(buf, pos, c, <<"n", "u", "l", "l">>, valueNull)
           [] OTHER               -> RawValue(typeRawNumber, parseRawNumber(buf, pos), c)

IsHexDigit(ch) ==
    ch \in Digits \cup {"a", "b", "c", "d", "e", "f", "A", "B", "C", "D", "E", "F"}

HexDigitValue(ch) ==
    CASE ch \in Digits -> DigitValue(ch)
      [] ch \in {"a", "b", "c", "d", "e", "f"} -> Code(ch) - Code("a") + 10
      [] OTHER -> Code(ch) - Code("A") + 10

\* strconv.ParseUint(xs, 16, 16) of four characters: -1 for an error.
ParseUint16(xs) ==
    IF \A i \in 1..4 : IsHexDigit(xs[i])
    THEN HexDigitValue(xs[1]) * 4096 + HexDigitValue(xs[2]) * 256
         + HexDigitValue(xs[3]) * 16 + HexDigitValue(xs[4])
    ELSE -1

\* string(rune(x)) for x below 2^16: the UTF-8 bytes of the code point, and
\* those of U+FFFD for a surrogate half.
EncodeRune(x) ==
    CASE x < 128  -> <<ByteOf(x)>>
      [] x >= 128 /\ x < 2048 ->
            <<ByteOf(192 + (x \div 64)), ByteOf(128 + (x % 64))>>
      [] x >= 55296 /\ x <= 57343 -> <<ByteOf(239), ByteOf(191), ByteOf(189)>>
      [] OTHER ->
            <<ByteOf(224 + (x \div 4096)), ByteOf(128 + ((x \div 64) % 64)),
              ByteOf(128 + (x % 64))>>

\* The switch as it would be if a \u that cannot be decoded were stored with
\* a replacement character after it.
UnescapedWithReplacement(ch, s) ==
    CASE ch = "\"" -> [out |-> <<"\"">>, rest |-> s]
      [] ch = "\\" -> [out |-> <<"\\">>, rest |-> s]
      [] ch = "/"  -> [out |-> <<"/">>, rest |-> s]
      [] ch = "b"  -> [out |-> <<ByteOf(8)>>, rest |-> s]
      [] ch = "f"  -> [out |-> <<"\f">>, rest |-> s]
      [] ch = "n"  -> [out |-> <<"\n">>, rest |-> s]
      [] ch = "r"  -> [out |-> <<"\r">>, rest |-> s]
      [] ch = "t"  -> [out |-> <<"\t">>, rest |-> s]
      [] ch = "u"  ->
            IF Len(s) < 4 \/ ParseUint16(SubSeq(s, 1, 4)) < 0
            THEN [out |-> <<"\\", ch>> \o EncodeRune(65533), rest |-> s]
            ELSE [out |-> EncodeRune(ParseUint16(SubSeq(s, 1, 4))), rest |-> Drop(s, 4)]
      [] OTHER     -> [out |-> <<"\\", ch>>, rest |-> s]

\* One turn of the switch in unescapeStringBestEffort: ch follows a
\* backslash and s follows ch.  The bytes appended and the text left.
Unescaped(ch, s) ==
    CASE ch = "\"" -> [out |-> <<"\"">>, rest |-> s]
      [] ch = "\\" -> [out |-> <<"\\">>, rest |-> s]
      [] ch = "/"  -> [out |-> <<"/">>, rest |-> s]
      [] ch = "b"  -> [out |-> <<ByteOf(8)>>, rest |-> s]
      [] ch = "f"  -> [out |-> <<"\f">>, rest |-> s]
      [] ch = "n"  -> [out |-> <<"\n">>, rest |-> s]
      [] ch = "r"  -> [out |-> <<"\r">>, rest |-> s]
      [] ch = "t"  -> [out |-> <<"\t">>, rest |-> s]
      [] ch = "u"  ->
            IF Len(s) < 4 \/ ParseUint16(SubSeq(s, 1, 4)) < 0
            THEN [out |-> <<"\\", ch>>, rest |-> s]
            ELSE [out |-> EncodeRune(ParseUint16(SubSeq(s, 1, 4))), rest |-> Drop(s, 4)]
      [] OTHER     -> [out |-> <<"\\", ch>>, rest |-> s]

\* The loop of unescapeStringBestEffort on the text after a backslash: the
\* bytes appended to b.
RECURSIVE unescapeLoop(_)
unescapeLoop(s) ==
    IF s = <<>> THEN <<>>
    ELSE With(Unescaped(Head(s), Tail(s)), LAMBDA e :
         With(Index(e.rest, <<"\\">>), LAMBDA n :
             IF n < 0 THEN e.out \o e.rest
             ELSE e.out \o Slice(e.rest, 0, n) \o unescapeLoop(Drop(e.rest, n + 1))))

\* unescapeStringBestEffort: the text of the string it returns.  The
\* string begins where s began: the bytes are written over s.
unescapeStringBestEffort(s) ==
    With(Index(s, <<"\\">>), LAMBDA n :
        IF n < 0 THEN s
        ELSE Slice(s, 0, n) \o unescapeLoop(Drop(s, n + 1)))

\* buf with text written from offset off.
WriteAt(buf, off, text) ==
    [i \in 1..Len(buf) |->
        IF i > off /\ i <= off + Len(text) THEN text[i - off] ELSE buf[i]]

\* What Type leaves: the tag it returns, the buffer and the cache.
Typed(t, buf, c) == [t |-> t, b |-> buf, c |-> c]

\* Value.Type, as it would be if a decoded string were decoded again.
TypeDecodingAgain(buf, c, v) ==
    IF v.kind # "cache" THEN Typed(Deref(c, v).t, buf, c)
    ELSE CASE c[v.at].t \in {typeRawString, TypeString} ->
                With(unescapeStringBestEffort(StringAt(buf, c[v.at].s)), LAMBDA text :
                    Typed(TypeString,
                          WriteAt(buf, c[v.at].s.off, text),
                          [c EXCEPT ![v.at].s.len = Len(text), ![v.at].t = TypeString]))
           [] c[v.at].t = typeRawNumber ->
                With(ParseFloat(StringAt(buf, c[v.at].s)), LAMBDA f :
                    Typed(TypeNumber, buf,
                          [c EXCEPT ![v.at].n = IF f.ok THEN f.val ELSE NumZero,
                                    ![v.at].t = TypeNumber]))
           [] OTHER -> Typed(c[v.at].t, buf, c)

\* Value.Type
Type(buf, c, v) ==
    IF v.kind # "cache" THEN Typed(Deref(c, v).t, buf, c)
    ELSE CASE c[v.at].t = typeRawString ->
                With(unescapeStringBestEffort(StringAt(buf, c[v.at].s)), LAMBDA text :
                    Typed(TypeString,
                          WriteAt(buf, c[v.at].s.off, text),
                          [c EXCEPT ![v.at].s.len = Len(text), ![v.at].t = TypeString]))
           [] c[v.at].t = typeRawNumber ->
                With(ParseFloat(StringAt(buf, c[v.at].s)), LAMBDA f :
                    Typed(TypeNumber, buf,
                          [c EXCEPT ![v.at].n = IF f.ok THEN f.val ELSE NumZero,
                                    ![v.at].t = TypeNumber]))
           [] OTHER -> Typed(c[v.at].t, buf, c)

(***************************************************************************)
(* The parser specification: one text is parsed, then Type is called on    *)
(* Values of the tree.                                                     *)
(***************************************************************************)

MaxPad == 1
MaxTypeCalls == 2
MaxLexemeLen == 3

\* Complete JSON values.
CompleteValues ==
    { <<"1">>,
      <<"-", "2", ".", "5">>,
      <<"\"", "a", "\"">>,
      <<"\"", "\\", "n", "\"">>,
      <<"\"", "\\", "\\", "n", "\"">>,
      <<"\"", "\\", "u", "0", "0", "4", "1", "\"">>,
      <<"\"", "\\", "u", "0", "0", "e", "9", "x", "\"">>,
      <<"t", "r", "u", "e">>,
      <<"f", "a", "l", "s", "e">>,
      <<"n", "u", "l", "l">>,
      <<"[", "]">>,
      <<"{", "}">>,
      <<"[", "1", " ", ",", "\"", "\\", "t", "\"", "]">>,
      <<"{", "\"", "k", "\"", " ", ":", " ", "\"", "v", "\\", "\"", "w", "\"", "}">>,
      <<"[", "[", "t", "r", "u", "e", "]", "]">>,
      <<"{", "\"", "a", "\"", ":", "1", ",", "\"", "b", "\"", ":", "[", "]", "}">> }

\* Texts that are no complete value.
BrokenValues ==
    { <<"[", "1">>,
      <<"{", "\"", "a", "\"">>,
      <<"t", "r", "u">>,
      <<"\"", "a">>,
      <<"x">>,
      <<"[", "1", " ", "2", "]">>,
      <<"{", "\"", "a", "\"", " ", "1", "}">>,
      <<"1", "-">>,
      <<"{", "\"", "a", "\"", ":", "}">> }

LeadAlphabet == {" ", "\t", "\n", "\r", "\f"}
TrailAlphabet == {" ", "\t", "\n", "\r", "\f", "x"}
Leads == UNION {[1..k -> LeadAlphabet] : k \in 0..MaxPad}
Trails == UNION {[1..k -> TrailAlphabet] : k \in 0..MaxPad}

\* Runs of the characters a number is scanned from, alone and as the first
\* element of an array.
LexemeAlphabet == {"1", "-", ".", "e", "E", "+"}
Lexemes == UNION {[1..k -> LexemeAlphabet] : k \in 0..MaxLexemeLen}
NumberDocs ==
    (Lexemes \ {<<>>}) \cup {<<"[">> \o l \o <<",", "1", "]">> : l \in Lexemes}

Docs ==
    {lead \o v \o trail : lead \in Leads, v \in CompleteValues \cup {<<>>}, trail \in Trails}
        \cup BrokenValues \cup NumberDocs

\* Nothing is being projected.
KeepIdle ==
    /\ request = [stays |-> <<>>, conts |-> <<>>]
    /\ kpc = "idle"
    /\ kres = NilV
    /\ kerr = "none"

ParseInit ==
    /\ doc \in Docs
    /\ ppc = "pending"
    /\ parser_b = <<>>
    /\ parser_c = <<>>
    /\ pret = nil
    /\ perr = "none"
    /\ calls = <<>>
    /\ KeepIdle
    /\ SearchIdle
    /\ TextIdle
    /\ FilterIdle
    /\ QueryIdle
    /\ ReuseIdle

\* Parser.Parse(doc)
Parse ==
    /\ ppc = "pending"
    /\ With(Drop(doc, skipWS(doc, 0)), LAMBDA buf :
       With(parseValue(buf, 0, cacheReset(parser_c)), LAMBDA r :
           /\ parser_b' = buf
           /\ parser_c' = r.c
           /\ IF r.err # "nil"
              THEN pret' = nil /\ perr' = "cannot parse JSON"
              ELSE IF skipWS(buf, r.pos) < Len(buf)
              THEN pret' = nil /\ perr' = "unexpected tail"
              ELSE pret' = r.v /\ perr' = "nil"))
    /\ ppc' = "returned"
    /\ UNCHANGED <<doc, calls, fvars, qvars, kvars, svars, tvars, rvars>>

\* The Values a caller holding the tree can reach.
Nodes == {CacheRef(i) : i \in 1..Len(parser_c)} \cup {pret}

\* v.Type() on a Value of the tree.
TypeCall ==
    /\ ppc = "returned"
    /\ pret # nil
    /\ Len(calls) < MaxTypeCalls
    /\ \E v \in Nodes :
          With(Type(parser_b, parser_c, v), LAMBDA r :
              /\ parser_b' = r.b
              /\ parser_c' = r.c
              /\ calls' = Append(calls, [v |-> v, t |-> r.t]))
    /\ UNCHANGED <<doc, ppc, pret, perr, fvars, qvars, kvars, svars, tvars, rvars>>

ParseNext == Parse \/ TypeCall

SpecParse == ParseInit /\ [][ParseNext]_vars

(***************************************************************************)
(* Claims about the parser and the value tree.                             *)
(***************************************************************************)

RawTags == {typeRawString, typeRawNumber}

\* C1: over any sequence of Type() calls a node's tag moves from a raw tag
\* to its decoded tag at most once and never back; the second and every
\* later call on a node returns the tag the first returned and leaves the
\* node's string and number as they were.
C1_TypeDecodesOnce ==
    [][Len(calls') = Len(calls) + 1 =>
        LET call   == calls'[Len(calls')]
            before == Deref(parser_c, call.v)
            after  == Deref(parser_c', call.v)
        IN  /\ call.t = after.t
            /\ after.t \notin RawTags
            /\ before.t # after.t =>
                  \/ before.t = typeRawString /\ after.t = TypeString
                  \/ before.t = typeRawNumber /\ after.t = TypeNumber
            /\ \A i \in 1..Len(parser_c) :
                  parser_c[i].t \notin RawTags => parser_c'[i].t = parser_c[i].t
            /\ \A i \in 1..Len(calls) :
                  calls[i].v = call.v =>
                      /\ call.t = calls[i].t
                      /\ before.t = after.t
                      /\ StringAt(parser_b', after.s) = StringAt(parser_b, before.s)
                      /\ after.n = before.n
    ]_vars

\* Type was called twice on a string whose decoding rewrote the buffer.
C1_Witness ==
    /\ Len(calls) = 2
    /\ calls[1].v = calls[2].v
    /\ calls[1].t = TypeString
    /\ parser_b # Drop(doc, Len(doc) - Len(parser_b))

IsWhitespaceText(s) == \A i \in 1..Len(s) : s[i] \in {" ", "\t", "\r", "\n"}

\* C2: Parse skips only space, tab, CR and LF around the top-level value.
\* It succeeds when a complete value has nothing but those before and
\* after it; it returns a nil Value and an error when any other character
\* is left after the value, and when nothing is left after the skipping.
C2_OnlyFourWhitespaces ==
    ppc = "returned" =>
        /\ IsWhitespaceText(doc) => (pret = nil /\ perr # "nil")
        /\ \A lead \in Leads, v \in CompleteValues, trail \in Trails :
              doc = lead \o v \o trail =>
                  IF IsWhitespaceText(lead \o trail)
                  THEN pret # nil /\ perr = "nil"
                  ELSE pret = nil /\ perr # "nil"

\* A value with whitespace on both sides was parsed.
C2_Witness ==
    /\ ppc = "returned"
    /\ pret # nil
    /\ Len(doc) > Len(parser_b)
    /\ doc[Len(doc)] \in {" ", "\t", "\r", "\n"}

\* The longest prefix of s made of the characters 0-9 - . e E +.
RECURSIVE Lexeme(_)
Lexeme(s) ==
    IF s = <<>> \/ Head(s) \notin (Digits \cup {"-", ".", "e", "E", "+"}) THEN <<>>
    ELSE <<Head(s)>> \o Lexeme(Tail(s))

\* The text is a number lexeme alone, or an array of two elements with the
\* lexeme (possibly empty) at the position of the first.
LexemeAlone == doc # <<>> /\ doc = Lexeme(doc)
LexemeInArray ==
    /\ doc # <<>>
    /\ Head(doc) = "["
    /\ doc = <<"[">> \o Lexeme(Tail(doc)) \o <<",", "1", "]">>
DocLexeme == IF LexemeAlone THEN doc ELSE Lexeme(Tail(doc))

\* The node of the lexeme in the tree Parse returned.
LexemeNode == IF LexemeAlone THEN pret ELSE Deref(parser_c, pret).a[1]

\* Decimal digits with at most one point and at least one digit.
IsDecimalText(m) ==
    /\ \E i \in 1..Len(m) : m[i] \in Digits
    /\ \E i \in 0..Len(m) :
          /\ IsDigits(SubSeq(m, 1, i))
          /\ i = Len(m) \/ (m[i + 1] = "." /\ IsDigits(SubSeq(m, i + 2, Len(m))))

\* Nothing, or e or E, an optional sign and digits.
IsExponentText(x) ==
    \/ x = <<>>
    \/ /\ Head(x) \in {"e", "E"}
       /\ \E i \in 1..2 :
             /\ i = 2 => (Len(x) >= 2 /\ x[2] \in {"+", "-"})
             /\ Len(x) > i
             /\ IsDigits(SubSeq(x, i + 1, Len(x)))

\* The text of a decimal floating-point number: an optional sign, a
\* decimal and an optional exponent.
IsNumberText(l) ==
    \E i \in 0..1, j \in 0..Len(l) :
        /\ i <= j
        /\ i = 1 => (l # <<>> /\ Head(l) \in {"+", "-"})
        /\ IsDecimalText(SubSeq(l, i + 1, j))
        /\ IsExponentText(SubSeq(l, j + 1, Len(l)))

\* C13: a number lexeme is the longest non-empty prefix of characters among
\* 0-9 - . e E +.  An empty lexeme where a value is expected makes Parse
\* fail; a non-empty one that is no valid number fails neither Parse nor
\* Type: Parse succeeds, the node holds the lexeme, and every Type call on
\* the node returns Number, the value being zero.
C13_LexemeIsLenient ==
    (ppc = "returned" /\ (LexemeAlone \/ LexemeInArray)) =>
        IF DocLexeme = <<>>
        THEN pret = nil /\ perr # "nil"
        ELSE /\ pret # nil /\ perr = "nil"
             /\ With(Deref(parser_c, LexemeNode), LAMBDA node :
                   /\ StringAt(parser_b, node.s) = DocLexeme
                   /\ node.t \in {typeRawNumber, TypeNumber}
                   /\ (node.t = TypeNumber /\ ~IsNumberText(DocLexeme))
                          => node.n = NumZero)
             /\ \A k \in 1..Len(calls) :
                   calls[k].v = LexemeNode =>
                       /\ calls[k].t = TypeNumber
                       /\ Deref(parser_c, LexemeNode).t = TypeNumber

\* Type has been called on the node of the lexeme --1.
C13_Witness ==
    /\ doc = <<"-", "-", "1">>
    /\ perr = "nil"
    /\ Len(calls) >= 1
    /\ calls[1] = [v |-> pret, t |-> TypeNumber]
    /\ Deref(parser_c, pret).n = NumZero

(***************************************************************************)
(* Projection: Value.Keep (src/value.go 326-399)                           *)
(*                                                                         *)
(* A KeepRequest is held as what GetKeys and splitBraces read in it: the   *)
(* keys kept whole (stays), and the keys kept in part (conts), each the    *)
(* text "key:{...}" with the requests found between its braces.            *)
(***************************************************************************)

MapV(x) == [ty |-> "map", m |-> x]

EmptyRequest == [stays |-> <<>>, conts |-> <<>>]

\* GetKeys(request)
GetKeys(req) == [stays |-> req.stays, conts |-> req.conts]

\* splitBraces(cont)
splitBraces(cont) == cont.val

\* strings.Split(cont, ":")[0]
KeyOf(cont) ==
    IF Index(cont.text, <<":">>) < 0 THEN cont.text
    ELSE Slice(cont.text, 0, Index(cont.text, <<":">>))

\* Object.Get(key) on the key/value pairs of an object: the value of the
\* first pair with the key, or nil.
ObjectGet(buf, kvs, key) ==
    With({i \in 1..Len(kvs) : StringAt(buf, kvs[i].k) = key}, LAMBDA hits :
        IF hits = {} THEN nil
        ELSE kvs[CHOOSE i \in hits : \A j \in hits : i <= j].v)

\* One character of fmt.Sprintf("%q", s), for the characters the model
\* draws.
QuotedChar(ch) ==
    CASE ch = "\"" -> <<"\\", "\"">>
      [] ch = "\\" -> <<"\\", "\\">>
      [] ch = "\n" -> <<"\\", "n">>
      [] ch = "\r" -> <<"\\", "r">>
      [] ch = "\t" -> <<"\\", "t">>
      [] ch = "\f" -> <<"\\", "f">>
      [] OTHER     -> <<ch>>

RECURSIVE QuotedChars(_)
QuotedChars(s) ==
    IF s = <<>> THEN <<>> ELSE QuotedChar(Head(s)) \o QuotedChars(Tail(s))

\* Value.String of a string: fmt.Sprintf("%q", v.s)
Quote(s) == <<"\"">> \o QuotedChars(s) \o <<"\"">>

\* What Keep leaves: its results, or a panic, and the buffer and the cache
\* after the Type calls it made.
Kept(res, err, buf, c) ==
    [panic |-> FALSE, res |-> res, err |-> err, b |-> buf, c |-> c]
KeepPanicked(buf, c) ==
    [panic |-> TRUE, res |-> NilV, err |-> "nil", b |-> buf, c |-> c]

RECURSIVE Keep(_, _, _, _)
RECURSIVE KeepArray(_, _, _, _, _)
RECURSIVE KeepStays(_, _, _, _, _, _)
RECURSIVE KeepConts(_, _, _, _, _)

\* The loop over the elements of an array.
KeepArray(buf, c, elems, req, rValues) ==
    IF elems = <<>> THEN Kept(ListV(rValues), "nil", buf, c)
    ELSE With(Keep(buf, c, Head(elems), req), LAMBDA r :
             IF r.panic \/ r.err # "nil" THEN [r EXCEPT !.res = NilV]
             ELSE KeepArray(r.b, r.c, Tail(elems), req, Append(rValues, r.res)))

\* The loop over conts, for the object v.  Get returns nil for a key the
\* object has not, and Keep is called on it all the same.
KeepConts(buf, c, v, conts, rValues) ==
    IF conts = <<>> THEN Kept(MapV(rValues), "nil", buf, c)
    ELSE IF splitBraces(Head(conts)) = <<>> THEN KeepPanicked(buf, c)
    ELSE With(Keep(buf, c, ObjectGet(buf, Deref(c, v).o, KeyOf(Head(conts))),
                   splitBraces(Head(conts))[1]),
              LAMBDA r :
                 IF r.panic \/ r.err # "nil" THEN [r EXCEPT !.res = NilV]
                 ELSE KeepConts(r.b, r.c, v, Tail(conts),
                                MapPut(rValues, KeyOf(Head(conts)), r.res)))

\* The loop over stays, for the object v.  For a key the object has not it
\* returns nil and err, the error v.Object() returned: nil.
KeepStays(buf, c, v, stays, conts, rValues) ==
    IF stays = <<>> THEN KeepConts(buf, c, v, conts, rValues)
    ELSE With(ObjectGet(buf, Deref(c, v).o, Head(stays)), LAMBDA next :
             IF next = nil THEN Kept(NilV, "nil", buf, c)
             ELSE With(Keep(buf, c, next, EmptyRequest), LAMBDA r :
                      IF r.panic \/ r.err # "nil" THEN [r EXCEPT !.res = NilV]
                      ELSE KeepStays(r.b, r.c, v, Tail(stays), conts,
                                     MapPut(rValues, Head(stays), r.res))))

\* Value.Keep.  On a nil Value, v.Type() reads through the nil pointer.
Keep(buf, c, v, req) ==
    IF v = nil THEN KeepPanicked(buf, c)
    ELSE With(Type(buf, c, v), LAMBDA ty :
             CASE ty.t = TypeArray ->
                    KeepArray(ty.b, ty.c, Deref(ty.c, v).a, req, <<>>)
               [] ty.t = TypeObject ->
                    KeepStays(ty.b, ty.c, v, GetKeys(req).stays, GetKeys(req).conts, <<>>)
               [] ty.t = TypeString ->
                    Kept(StrV(Quote(StringAt(ty.b, Deref(ty.c, v).s))), "nil", ty.b, ty.c)
               [] ty.t = TypeNumber ->
                    Kept(FloatV(Deref(ty.c, v).n), "nil", ty.b, ty.c)
               [] ty.t = TypeFalse -> Kept(BoolV(FALSE), "nil", ty.b, ty.c)
               [] ty.t = TypeTrue  -> Kept(BoolV(TRUE), "nil", ty.b, ty.c)
               [] OTHER -> Kept(NilV, "Type not recognized", ty.b, ty.c))

(***************************************************************************)
(* The projection specification: one text is parsed and Keep is called on  *)
(* the Value Parse returned.                                               *)
(***************************************************************************)

KeepDocs ==
    { <<"{", "\"", "a", "\"", ":", "1", ",", "\"", "b", "\"", ":", "{", "\"", "c", "\"", ":", "\"", "x", "\"", "}", "}">>,
      <<"{", "\"", "a", "\"", ":", "n", "u", "l", "l", "}">>,
      <<"[", "{", "\"", "a", "\"", ":", "1", "}", ",", "{", "\"", "b", "\"", ":", "2", "}", "]">>,
      <<"{", "}">>,
      <<"\"", "s", "\"">>,
      <<"1">>,
      <<"{", "\"", "a", "\"", ":", "[", "t", "r", "u", "e", ",", "f", "a", "l", "s", "e", "]", "}">>,
      <<"{", "\"", "b", "\"", ":", "{", "}", "}">>,
      <<"t", "r", "u", "e">>,
      <<"[", "1", ",", "\"", "s", "\\", "n", "\"", "]">> }

KeepRequests ==
    { [stays |-> <<>>, conts |-> <<>>],
      [stays |-> <<<<"a">>>>, conts |-> <<>>],
      [stays |-> <<<<"z">>>>, conts |-> <<>>],
      [stays |-> <<<<"a">>, <<"b">>>>, conts |-> <<>>],
      [stays |-> <<<<"a">>>>, conts |-> <<[text |-> <<"b", ":", "{", "c", "}">>, val |-> <<[stays |-> <<<<"c">>>>, conts |-> <<>>]>>]>>],
      [stays |-> <<>>, conts |-> <<[text |-> <<"z", ":", "{", "c", "}">>, val |-> <<[stays |-> <<<<"c">>>>, conts |-> <<>>]>>]>>],
      [stays |-> <<>>, conts |-> <<[text |-> <<"b", ":", "{", "z", "}">>, val |-> <<[stays |-> <<<<"z">>>>, conts |-> <<>>]>>]>>] }

KeepInit ==
    /\ doc \in KeepDocs
    /\ ppc = "pending"
    /\ parser_b = <<>>
    /\ parser_c = <<>>
    /\ pret = nil
    /\ perr = "none"
    /\ calls = <<>>
    /\ request \in KeepRequests
    /\ kpc = "pending"
    /\ kres = NilV
    /\ kerr = "none"
    /\ SearchIdle
    /\ TextIdle
    /\ FilterIdle
    /\ QueryIdle
    /\ ReuseIdle

\* pret.Keep(request) returns.
KeepReturns ==
    /\ ppc = "returned"
    /\ pret # nil
    /\ kpc = "pending"
    /\ With(Keep(parser_b, parser_c, pret, request), LAMBDA r :
          /\ ~r.panic
          /\ kres' = r.res
          /\ kerr' = r.err
          /\ parser_b' = r.b
          /\ parser_c' = r.c)
    /\ kpc' = "returned"
    /\ UNCHANGED <<doc, ppc, pret, perr, calls, request, fvars, qvars, svars, tvars, rvars>>

\* pret.Keep(request) panics.
KeepPanics ==
    /\ ppc = "returned"
    /\ pret # nil
    /\ kpc = "pending"
    /\ With(Keep(parser_b, parser_c, pret, request), LAMBDA r :
          /\ r.panic
          /\ parser_b' = r.b
          /\ parser_c' = r.c)
    /\ kpc' = "panicked"
    /\ UNCHANGED <<doc, ppc, pret, perr, calls, request, kres, kerr, fvars, qvars, svars, tvars, rvars>>

KeepNext == Parse \/ KeepReturns \/ KeepPanics

SpecKeep == KeepInit /\ [][KeepNext]_vars

(***************************************************************************)
(* Claims about projection.                                                *)
(***************************************************************************)

\* The keys a request names: those kept whole and those kept in part.
NamedKeys(req) ==
    {req.stays[i] : i \in 1..Len(req.stays)}
        \cup {KeyOf(req.conts[i]) : i \in 1..Len(req.conts)}

HasKey(buf, kvs, key) == \E i \in 1..Len(kvs) : StringAt(buf, kvs[i].k) = key

\* C5: Keep on an object node returns a non-nil error whenever a key the
\* selection names, kept whole or in part, is absent from the object; it
\* returns no nil error then and does not crash.
C5_AbsentKeyIsAnError ==
    (/\ kpc \in {"returned", "panicked"}
     /\ Deref(parser_c, pret).t = TypeObject
     /\ \E key \in NamedKeys(request) :
            ~HasKey(parser_b, Deref(parser_c, pret).o, key))
        => (kpc = "returned" /\ kerr # "nil")

(***************************************************************************)
(* Search (src/value.go 282-324)                                           *)
(***************************************************************************)

\* What Search leaves: its values and its error, or a panic, and the buffer
\* and the cache after the Type calls it made.
Searched(res, err, buf, c) ==
    [panic |-> FALSE, res |-> res, err |-> err, b |-> buf, c |-> c]
SearchPanicked(buf, c) ==
    [panic |-> TRUE, res |-> <<>>, err |-> "nil", b |-> buf, c |-> c]

RECURSIVE Search(_, _, _, _)
RECURSIVE SearchArray(_, _, _, _, _)

\* The loop over the elements of an array.
SearchArray(buf, c, elems, path, rValues) ==
    IF elems = <<>> THEN Searched(rValues, "nil", buf, c)
    ELSE With(Search(buf, c, Head(elems), path), LAMBDA r :
             IF r.panic \/ r.err # "nil" THEN [r EXCEPT !.res = <<>>]
             ELSE SearchArray(r.b, r.c, Tail(elems), path, rValues \o r.res))

\* Value.Search.  On a nil Value, v.Type() reads through the nil pointer; on
\* an object, keys[0] is read whatever the length of keys, and Search is
\* called on what Get returned, nil for a key the object has not.
Search(buf, c, v, path) ==
    IF v = nil THEN SearchPanicked(buf, c)
    ELSE With(Type(buf, c, v), LAMBDA ty :
             CASE ty.t = TypeArray ->
                    SearchArray(ty.b, ty.c, Deref(ty.c, v).a, path, <<>>)
               [] ty.t = TypeObject ->
                    IF path = <<>> THEN SearchPanicked(ty.b, ty.c)
                    ELSE With(Search(ty.b, ty.c,
                                     ObjectGet(ty.b, Deref(ty.c, v).o, Head(path)),
                                     Tail(path)),
                              LAMBDA r :
                                 IF r.panic \/ r.err # "nil"
                                 THEN [r EXCEPT !.res = <<>>]
                                 ELSE r)
               [] ty.t = TypeString ->
                    Searched(<<StrV(Quote(StringAt(ty.b, Deref(ty.c, v).s)))>>,
                             "nil", ty.b, ty.c)
               [] ty.t = TypeNumber ->
                    Searched(<<FloatV(Deref(ty.c, v).n)>>, "nil", ty.b, ty.c)
               [] ty.t = TypeFalse -> Searched(<<BoolV(FALSE)>>, "nil", ty.b, ty.c)
               [] ty.t = TypeTrue  -> Searched(<<BoolV(TRUE)>>, "nil", ty.b, ty.c)
               [] OTHER -> Searched(<<>>, "Type not recognized", ty.b, ty.c))

(***************************************************************************)
(* The search specification: one text is parsed and Search is called with  *)
(* a key path on the Value Parse returned.                                 *)
(***************************************************************************)

SearchDocs ==
    KeepDocs
    \cup { <<"n", "u", "l", "l">>,
           <<"[", "1", ",", "n", "u", "l", "l", "]">>,
           <<"{", "\"", "a", "\"", ":", "[", "{", "\"", "x", "\"", ":", "1", "}", ",",
             "{", "\"", "x", "\"", ":", "2", "}", "]", "}">> }

SearchPaths ==
    { <<>>,
      <<<<"a">>>>,
      <<<<"z">>>>,
      <<<<"b">>>>,
      <<<<"b">>, <<"c">>>>,
      <<<<"b">>, <<"z">>>>,
      <<<<"a">>, <<"x">>>>,
      <<<<"a">>, <<"x">>, <<"y">>>> }

SearchInit ==
    /\ doc \in SearchDocs
    /\ ppc = "pending"
    /\ parser_b = <<>>
    /\ parser_c = <<>>
    /\ pret = nil
    /\ perr = "none"
    /\ calls = <<>>
    /\ keys \in SearchPaths
    /\ spc = "pending"
    /\ sres = <<>>
    /\ serr = "none"
    /\ TextIdle
    /\ KeepIdle
    /\ FilterIdle
    /\ QueryIdle
    /\ ReuseIdle

\* pret.Search(keys...) returns.
SearchReturns ==
    /\ ppc = "returned"
    /\ pret # nil
    /\ spc = "pending"
    /\ With(Search(parser_b, parser_c, pret, keys), LAMBDA r :
          /\ ~r.panic
          /\ sres' = r.res
          /\ serr' = r.err
          /\ parser_b' = r.b
          /\ parser_c' = r.c)
    /\ spc' = "returned"
    /\ UNCHANGED <<doc, ppc, pret, perr, calls, keys, fvars, qvars, kvars, tvars, rvars>>

\* pret.Search(keys...) panics.
SearchPanics ==
    /\ ppc = "returned"
    /\ pret # nil
    /\ spc = "pending"
    /\ With(Search(parser_b, parser_c, pret, keys), LAMBDA r :
          /\ r.panic
          /\ parser_b' = r.b
          /\ parser_c' = r.c)
    /\ spc' = "panicked"
    /\ UNCHANGED <<doc, ppc, pret, perr, calls, keys, sres, serr, fvars, qvars, kvars, tvars, rvars>>

SearchNext == Parse \/ SearchReturns \/ SearchPanics

SpecSearch == SearchInit /\ [][SearchNext]_vars

(***************************************************************************)
(* Claims about Search.                                                    *)
(***************************************************************************)

\* The key path cannot be followed from the node v: a key of the path is
\* absent from the object it is looked up in, the path is used up on an
\* object, or the node reached is null; through an array, the path is
\* followed from every element.
RECURSIVE Unfollowable(_, _, _, _)
Unfollowable(buf, c, v, path) ==
    CASE Deref(c, v).t = TypeNull -> TRUE
      [] Deref(c, v).t = TypeObject ->
            \/ path = <<>>
            \/ ~HasKey(buf, Deref(c, v).o, Head(path))
            \/ Unfollowable(buf, c, ObjectGet(buf, Deref(c, v).o, Head(path)), Tail(path))
      [] Deref(c, v).t = TypeArray ->
            \E i \in 1..Len(Deref(c, v).a) : Unfollowable(buf, c, Deref(c, v).a[i], path)
      [] OTHER -> FALSE

\* C12: Search returns an error, and neither a result nor a crash, whenever
\* the key path cannot be followed through the tree: a key is absent from
\* the object traversed, the path is used up while the node is still an
\* object, or the node reached is null.
C12_UnfollowablePathIsAnError ==
    (/\ spc \in {"returned", "panicked"}
     /\ Unfollowable(parser_b, parser_c, pret, keys))
        => (spc = "returned" /\ serr # "nil" /\ sres = <<>>)

(***************************************************************************)
(* The scanning specification: parseRawString is called on one text that   *)
(* begins with a quote.                                                    *)
(***************************************************************************)

MaxScanLen == 5

ScanAlphabet == {"\"", "\\", "a"}
ScanTexts == {<<"\"">> \o s : s \in UNION {[1..k -> ScanAlphabet] : k \in 0..MaxScanLen}}

UnescapeIdle == un = [pc |-> "idle", buf |-> <<>>, b |-> <<>>, r |-> 0, moved |-> FALSE]

\* The first quote after the opening one follows a backslash: the case
\* parseRawString leaves to its slow path.
QuoteAfterBackslash(s) ==
    With(IndexByte(s, 1, "\""), LAMBDA n :
        IF n <= 1 THEN FALSE ELSE s[n] = "\\")

ScanInit ==
    /\ input \in ScanTexts
    /\ scan = [err |-> "pending", str |-> NoString, pos |-> 0]
    /\ UnescapeIdle
    /\ SearchIdle
    /\ ParserIdle
    /\ FilterIdle
    /\ QueryIdle
    /\ ReuseIdle

\* parseRawString(input) returns through its fast path: the first quote
\* after the opening one has no backslash before it.
ScanFast ==
    /\ scan.err = "pending"
    /\ ~QuoteAfterBackslash(input)
    /\ scan' = parseRawString(input, 0)
    /\ UNCHANGED <<input, un, fvars, qvars, pvars, kvars, svars, rvars>>

\* parseRawString(input) returns through its slow path.
ScanSlow ==
    /\ scan.err = "pending"
    /\ QuoteAfterBackslash(input)
    /\ scan' = parseRawString(input, 0)
    /\ UNCHANGED <<input, un, fvars, qvars, pvars, kvars, svars, rvars>>

ScanNext == ScanFast \/ ScanSlow

SpecScan == ScanInit /\ [][ScanNext]_vars

(***************************************************************************)
(* Claims about parseRawString.                                            *)
(***************************************************************************)

\* The number of backslashes in a row just before offset n of s.
BackslashesBefore(s, n) ==
    CHOOSE k \in 0..n :
        /\ \A j \in 1..k : s[n + 1 - j] = "\\"
        /\ (k = n \/ s[n - k] # "\\")

\* The offsets, after the opening quote, of the quotes that have an even
\* number of backslashes in a row before them.
ClosingQuotes(s) ==
    {n \in 1..(Len(s) - 1) : s[n + 1] = "\"" /\ BackslashesBefore(s, n) % 2 = 0}

FirstOf(offsets) == CHOOSE n \in offsets : \A m \in offsets : n <= m

\* C14: on a text that begins with a quote, parseRawString ends the string
\* at the first quote that has an even number of backslashes in a row
\* before it (none included); it returns the text between the two quotes,
\* escapes untouched, and the text after the closing quote; it fails with
\* the missing-closing-quote error exactly when there is no such quote.
\* The rule is the same whether the fast or the slow path returned.
C14_EndsAtFirstUnescapedQuote ==
    scan.err \notin {"pending", "idle"} =>
        IF ClosingQuotes(input) = {}
        THEN scan.err = "missing closing '\"'"
        ELSE /\ scan.err = "nil"
             /\ StringAt(input, scan.str) = SubSeq(input, 2, FirstOf(ClosingQuotes(input)))
             /\ scan.str.off = 1
             /\ scan.pos = FirstOf(ClosingQuotes(input)) + 1

\* The slow path has gone past an escaped quote and ended the string at a
\* quote that follows two backslashes.
C14_Witness ==
    /\ input = <<"\"", "\\", "\"", "\\", "\\", "\"">>
    /\ scan.err = "nil"
    /\ scan.pos = 6

(***************************************************************************)
(* The unescape specification: unescapeStringBestEffort runs on one text,  *)
(* a step at a time.  s and b share their bytes (s2b, src/parser.go        *)
(* 59-66): un.buf is the memory of s, un.r the offset s has reached in it,  *)
(* un.b the bytes of b, written over un.buf from its start for as long as  *)
(* they fit in it (the capacity of b is the length of s); append moves b   *)
(* to a new array when they do not.                                        *)
(***************************************************************************)

MaxPieces == 3

\* What a raw string is made of: a plain character, the escapes, a \u that
\* gives one, two and three bytes, a surrogate half, a \u cut short, a \u
\* with other than hex digits, an unknown escape and a lone backslash.
Pieces ==
    { <<"a">>,
      <<"\\", "n">>,
      <<"\\", "\"">>,
      <<"\\", "\\">>,
      <<"\\", "u", "0", "0", "4", "1">>,
      <<"\\", "u", "0", "0", "e", "9">>,
      <<"\\", "u", "2", "0", "a", "c">>,
      <<"\\", "u", "d", "8", "0", "0">>,
      <<"\\", "u", "1", "2">>,
      <<"\\", "u", "0", "0", "z", "z">>,
      <<"\\", "q">>,
      <<"\\">> }

RECURSIVE Joined(_)
Joined(ps) == IF ps = <<>> THEN <<>> ELSE Head(ps) \o Joined(Tail(ps))

UnescapeTexts == {Joined(ps) : ps \in UNION {[1..k -> Pieces] : k \in 0..MaxPieces}}

ScanIdle == scan = [err |-> "idle", str |-> [off |-> 0, len |-> 0], pos |-> 0]

UnescapeInit ==
    /\ input \in UnescapeTexts
    /\ un = [pc |-> "pending", buf |-> input, b |-> <<>>, r |-> 0, moved |-> FALSE]
    /\ ScanIdle
    /\ SearchIdle
    /\ ParserIdle
    /\ FilterIdle
    /\ QueryIdle
    /\ ReuseIdle

\* b = append(b, out...)
Appended(u, out) ==
    IF ~u.moved /\ Len(u.b) + Len(out) <= Len(u.buf)
    THEN [u EXCEPT !.b = u.b \o out, !.buf = WriteAt(u.buf, Len(u.b), out)]
    ELSE [u EXCEPT !.b = u.b \o out, !.moved = TRUE]

\* The fast path: s has no backslash and is returned as it is.
UnescapeFast ==
    /\ un.pc = "pending"
    /\ IndexByte(un.buf, 0, "\\") < 0
    /\ un' = [un EXCEPT !.pc = "returned", !.b = un.buf, !.r = Len(un.buf)]
    /\ UNCHANGED <<input, scan, fvars, qvars, pvars, kvars, svars, rvars>>

\* b = s2b(s); b = b[:n]; s = s[n+1:]
UnescapeEnter ==
    /\ un.pc = "pending"
    /\ IndexByte(un.buf, 0, "\\") >= 0
    /\ With(IndexByte(un.buf, 0, "\\"), LAMBDA n :
          un' = [un EXCEPT !.pc = "loop", !.b = Slice(un.buf, 0, n), !.r = n + 1])
    /\ UNCHANGED <<input, scan, fvars, qvars, pvars, kvars, svars, rvars>>

\* ch := s[0]; s = s[1:]; switch ch { ... }
UnescapeSwitch ==
    /\ un.pc = "loop"
    /\ un.r < Len(un.buf)
    /\ With(Unescaped(un.buf[un.r + 1], Drop(un.buf, un.r + 1)), LAMBDA e :
          un' = Appended([un EXCEPT !.pc = "copy", !.r = Len(un.buf) - Len(e.rest)],
                         e.out))
    /\ UNCHANGED <<input, scan, fvars, qvars, pvars, kvars, svars, rvars>>

\* n = strings.IndexByte(s, '\\'), then the text up to the next backslash is
\* appended and s moves past the backslash, or the rest of s is appended and
\* the loop ends.
UnescapeCopy ==
    /\ un.pc = "copy"
    /\ With(IndexByte(un.buf, un.r, "\\"), LAMBDA n :
          IF n < 0
          THEN un' = Appended([un EXCEPT !.pc = "returned", !.r = Len(un.buf)],
                              Drop(un.buf, un.r))
          ELSE un' = Appended([un EXCEPT !.pc = "loop", !.r = n + 1],
                              Slice(un.buf, un.r, n)))
    /\ UNCHANGED <<input, scan, fvars, qvars, pvars, kvars, svars, rvars>>

\* The loop ends on len(s) = 0.
UnescapeExit ==
    /\ un.pc = "loop"
    /\ un.r = Len(un.buf)
    /\ un' = [un EXCEPT !.pc = "returned"]
    /\ UNCHANGED <<input, scan, fvars, qvars, pvars, kvars, svars, rvars>>

UnescapeNext ==
    UnescapeFast \/ UnescapeEnter \/ UnescapeSwitch \/ UnescapeCopy \/ UnescapeExit

SpecUnescape == UnescapeInit /\ [][UnescapeNext]_vars

(***************************************************************************)
(* Claims about the unescaping in place.                                   *)
(***************************************************************************)

\* The steps return the text the function unescapeStringBestEffort gives.
UnescapeAgrees ==
    un.pc = "returned" => un.b = unescapeStringBestEffort(input)

\* C15: at every step of the unescaping, the bytes written are no more than
\* the bytes of the input read so far, whatever the escapes (a \u that is
\* decoded, one cut short or with other than hex digits, an unknown letter);
\* so the writing never reaches input still to read, never goes past the
\* end of the span (b is never moved to a new array), and the text returned
\* is no longer than the raw text.
C15_WriteStaysBehindRead ==
    un.pc \in {"loop", "copy", "returned"} =>
        /\ Len(un.b) <= un.r
        /\ un.r <= Len(input)
        /\ Drop(un.buf, un.r) = Drop(input, un.r)
        /\ ~un.moved
        /\ SubSeq(un.buf, 1, Len(un.b)) = un.b
        /\ Len(un.b) <= Len(input)

\* An unknown escape was stored as it was, the bytes written having caught
\* up with the bytes read, and a \u decoded after it.
C15_Witness ==
    /\ input = <<"\\", "q", "\\", "u", "0", "0", "4", "1">>
    /\ un.pc = "returned"
    /\ un.b = <<"\\", "q", "A">>

(***************************************************************************)
(* A Parser used again (src/parser.go 11-44, src/value.go 25-31)           *)
(*                                                                         *)
(* Parser.b is a slice of a backing array: mem.spare_b holds the bytes of  *)
(* the array past the length of Parser.b.  append writes the new text over *)
(* the array when it fits, and else leaves the array behind                *)
(* (mem.orphans) for a new one.  The cache hands out its Values in order   *)
(* from the first after a reset and keeps the others as they were:         *)
(* mem.spare_c holds the Values past the last one handed out, each with    *)
(* the array its strings are in.  A pointer to a Value is its place in the *)
(* cache.                                                                  *)
(***************************************************************************)

\* The array Parser.b is a slice of is the one after the arrays left behind.
CurrentArray(p) == Len(p.orphans) + 1

Tagged(c, array) == [i \in 1..Len(c) |-> [val |-> c[i], array |-> array]]

\* The memory of a Parser: Parser.b, the Values in use, and the rest.
Memory(b, c, m) ==
    [b |-> b, c |-> c, spare_b |-> m.spare_b, spare_c |-> m.spare_c,
     orphans |-> m.orphans]

\* Parser.Parse(s) on the Parser p.  cap is the room append leaves past the
\* text when it makes a new array.
ParserParseSparingOnFailure(p, s, cap) ==
    With(Drop(s, skipWS(s, 0)), LAMBDA buf :
    With(parseValue(buf, 0, cacheReset(p.c)), LAMBDA r :
        IF r.err # "nil"
        THEN [mem |-> p, v |-> nil, err |-> "cannot parse JSON", writes |-> 0, resets |-> 0]
        ELSE IF skipWS(buf, r.pos) < Len(buf)
        THEN [mem |-> p, v |-> nil, err |-> "unexpected tail", writes |-> 0, resets |-> 0]
        ELSE [mem |-> [b |-> buf,
                       spare_b |-> IF Len(buf) <= Len(p.b \o p.spare_b)
                                   THEN Drop(p.b \o p.spare_b, Len(buf))
                                   ELSE [i \in 1..cap |-> ByteOf(0)],
                       orphans |-> IF Len(buf) <= Len(p.b \o p.spare_b)
                                   THEN p.orphans
                                   ELSE Append(p.orphans, p.b \o p.spare_b),
                       c |-> r.c,
                       spare_c |-> Drop(Tagged(p.c, CurrentArray(p)) \o p.spare_c,
                                        Len(r.c))],
              v |-> r.v, err |-> "nil", writes |-> 1, resets |-> 1]))

ParserParse(p, s, cap) ==
    With(Drop(s, skipWS(s, 0)), LAMBDA buf :
    With(parseValue(buf, 0, cacheReset(p.c)), LAMBDA r :
        [mem |-> [b |-> buf,
                  spare_b |-> IF Len(buf) <= Len(p.b \o p.spare_b)
                              THEN Drop(p.b \o p.spare_b, Len(buf))
                              ELSE [i \in 1..cap |-> ByteOf(0)],
                  orphans |-> IF Len(buf) <= Len(p.b \o p.spare_b)
                              THEN p.orphans
                              ELSE Append(p.orphans, p.b \o p.spare_b),
                  c |-> r.c,
                  spare_c |-> Drop(Tagged(p.c, CurrentArray(p)) \o p.spare_c,
                                   Len(r.c))],
         v |-> IF r.err # "nil" \/ skipWS(buf, r.pos) < Len(buf) THEN nil ELSE r.v,
         err |-> IF r.err # "nil" THEN "cannot parse JSON"
                 ELSE IF skipWS(buf, r.pos) < Len(buf) THEN "unexpected tail"
                 ELSE "nil",
         writes |-> 1,
         resets |-> 1]))

\* What a pointer to the i-th Value of the cache reads, and the bytes its
\* strings are in.
ValueAt(p, i) ==
    IF i <= Len(p.c) THEN [val |-> p.c[i], array |-> CurrentArray(p)]
    ELSE p.spare_c[i - Len(p.c)]

BytesOf(p, array) ==
    IF array = CurrentArray(p) THEN p.b \o p.spare_b ELSE p.orphans[array]

\* What the tree under v reads as: the type and the decoded content of
\* every node.
RECURSIVE Meaning(_, _)
Meaning(p, v) ==
    IF v.kind # "cache" THEN [ty |-> Deref(p.c, v).t]
    ELSE With(ValueAt(p, v.at), LAMBDA slot :
         With(StringAt(BytesOf(p, slot.array), slot.val.s), LAMBDA str :
             CASE slot.val.t = typeRawString ->
                    [ty |-> TypeString, s |-> unescapeStringBestEffort(str)]
               [] slot.val.t = TypeString -> [ty |-> TypeString, s |-> str]
               [] slot.val.t = typeRawNumber ->
                    [ty |-> TypeNumber,
                     n |-> IF ParseFloat(str).ok THEN ParseFloat(str).val ELSE NumZero]
               [] slot.val.t = TypeNumber -> [ty |-> TypeNumber, n |-> slot.val.n]
               [] slot.val.t = TypeArray ->
                    [ty |-> TypeArray,
                     a |-> [i \in 1..Len(slot.val.a) |-> Meaning(p, slot.val.a[i])]]
               [] slot.val.t = TypeObject ->
                    [ty |-> TypeObject,
                     o |-> [i \in 1..Len(slot.val.o) |->
                              [k |-> StringAt(BytesOf(p, slot.array), slot.val.o[i].k),
                               v |-> Meaning(p, slot.val.o[i].v)]]]
               [] OTHER -> [ty |-> slot.val.t]))

(***************************************************************************)
(* The reuse specification: one Parser parses one text after another, and  *)
(* a caller holds the tree one of the calls returned and calls Type on the *)
(* Values of the last tree.                                                *)
(***************************************************************************)

MaxParses == 2
MaxSpare == 1

ReuseDocs ==
    { <<"[", "\"", "a", "b", "\"", "]">>,
      <<"{", "\"", "k", "\"", ":", "\"", "v", "\\", "n", "\"", "}">>,
      <<"\"", "c", "\"">>,
      <<" ", "7">>,
      <<"x">>,
      <<"[", "1">>,
      <<>> }

ReuseInit ==
    /\ doc = <<>>
    /\ ppc = "pending"
    /\ parser_b = <<>>
    /\ parser_c = <<>>
    /\ pret = nil
    /\ perr = "none"
    /\ calls = <<>>
    /\ mem = [spare_b |-> <<>>, spare_c |-> <<>>, orphans |-> <<>>]
    /\ hist = [nparse |-> 0, writes |-> 0, resets |-> 0]
    /\ held = [v |-> nil, at |-> 0, seen |-> <<>>]
    /\ KeepIdle
    /\ SearchIdle
    /\ TextIdle
    /\ FilterIdle
    /\ QueryIdle

\* Parser.Parse(s) on the Parser that has parsed doc before.  The caller
\* keeps the tree it held, or holds the tree returned.
ParseAgain ==
    /\ hist.nparse < MaxParses
    /\ \E s \in ReuseDocs, cap \in 0..MaxSpare :
          With(ParserParse(Memory(parser_b, parser_c, mem), s, cap), LAMBDA r :
              /\ doc' = s
              /\ parser_b' = r.mem.b
              /\ parser_c' = r.mem.c
              /\ mem' = [spare_b |-> r.mem.spare_b, spare_c |-> r.mem.spare_c,
                         orphans |-> r.mem.orphans]
              /\ pret' = r.v
              /\ perr' = r.err
              /\ hist' = [nparse |-> hist.nparse + 1,
                          writes |-> hist.writes + r.writes,
                          resets |-> hist.resets + r.resets]
              /\ \/ r.v # nil /\ held' = [v |-> r.v, at |-> hist.nparse + 1,
                                         seen |-> Meaning(r.mem, r.v)]
                 \/ held.v # nil /\ held' = held
                 \/ r.v = nil /\ held.v = nil /\ held' = held)
    /\ ppc' = "returned"
    /\ UNCHANGED <<calls, fvars, qvars, kvars, svars, tvars>>

ReuseNext == ParseAgain \/ TypeCall

SpecReuse == ReuseInit /\ [][ReuseNext]_vars

(***************************************************************************)
(* Claims about the reuse of a Parser.                                     *)
(***************************************************************************)

\* s without the spaces, tabs, line feeds and carriage returns it begins
\* with.
RECURSIVE WithoutLead(_)
WithoutLead(s) ==
    IF s # <<>> /\ Head(s) \in {" ", "\t", "\n", "\r"} THEN WithoutLead(Tail(s)) ELSE s

\* What the tree the caller holds reads as now.
HeldMeaning == Meaning(Memory(parser_b, parser_c, mem), held.v)

\* C16, at each call: a Parse call, whether it succeeds or fails, writes
\* the text over the working buffer once and resets the cache once, before
\* any Value of the call is handed out: the Values in use are those of this
\* call, the first of them the first of the cache.
EachParseStartsAfresh ==
    hist'.nparse = hist.nparse + 1 =>
        /\ parser_b' = WithoutLead(doc')
        /\ hist'.writes = hist.writes + 1
        /\ hist'.resets = hist.resets + 1
        /\ (perr' = "nil") = (pret' # nil)
        /\ pret'.kind = "cache" => (pret'.at = 1 /\ Len(parser_c') >= 1)
        /\ \A i \in 1..Len(parser_c') :
              parser_c'[i].s.off + parser_c'[i].s.len <= Len(parser_b')

\* C16, between the calls: the tree a call returned reads the same until the
\* next Parse call on the Parser, whatever Type calls are made.
HeldIntactUntilNextParse ==
    (held.v # nil /\ hist.nparse = held.at) => HeldMeaning = held.seen

\* C16: in any sequence of Parse calls on one Parser each call overwrites
\* the working buffer and resets the cache exactly once before it hands out
\* a Value, whether it then succeeds or fails; the tree a call returned is
\* intact until the next Parse call on the same Parser (and no longer: see
\* C16_Witness).
C16_TreeLastsUntilNextParse ==
    [][EachParseStartsAfresh]_vars /\ []HeldIntactUntilNextParse

\* A later Parse call that failed has changed the tree an earlier call
\* returned.
C16_Witness ==
    /\ held.v # nil
    /\ hist.nparse > held.at
    /\ pret = nil
    /\ perr # "nil"
    /\ HeldMeaning # held.seen

====
